---- MODULE Spec2Model ----
(***************************************************************************)
(* A model of the agent runtime of naianita/AI_agent:                      *)
(*   - OutputParser.parse            (agent/output_parser.py)              *)
(*   - ToolManager registry/dispatch (agent/tool_manager.py)               *)
(*   - ModelHub.complex_llm_call     (agent/model_hub.py)                  *)
(*   - ReActAgent.solve              (agent/react_agent.py)                *)
(*   - MemoryManager                 (agent/memory_manager.py)             *)
(*   - agent_cache, chat_api, clear_memory (views.py)                      *)
(*                                                                         *)
(* One specification per component.  SolveSpec, ToolSpec, RegistrySpec,    *)
(* MemSpec, RecallSpec, SharedArchiveSpec, ParseSpec and FormatSpec run    *)
(* whole calls; EvictSpec, CacheSpec and HubSpec run the eviction,         *)
(* chat_api and the ModelHub calls statement by statement with two of      *)
(* them in flight.                                                         *)
(*                                                                         *)
(* Text is a sequence of tokens (strings).  A token is an atomic piece of  *)
(* a Python string: a label such as "Thought: ", a newline, a blank, a     *)
(* word, or a JSON payload.  Concatenation is \o, so "contains" and        *)
(* "starts with" are checkable.                                            *)
(***************************************************************************)
EXTENDS Integers, Sequences, FiniteSets, TLC

VARIABLES
    \* ---- ReActAgent.solve (one agent instance) ----
    pc,                    \* "idle" | "loop" (line 36) | "after" (line 84) | "returned" | "raised"
    user_input,            \* argument of the running solve call
    iteration,             \* local variable iteration
    conversation_history,  \* local variable conversation_history
    final_answer,          \* local variable final_answer: <<>> is None, <<s>> is the string s
    prompt,                \* the prompt of the latest iteration (<<>> before the first)
    result,                \* <<>> until solve returns, then <<the returned dict>>
    max_iterations,        \* ReActAgent.max_iterations
    \* ---- ModelHub ----
    fallback_model,        \* settings.FALLBACK_MODEL is configured (truthy)
    use_fallback,          \* ModelHub.use_fallback
    \* ---- ToolManager ----
    tools,                 \* ToolManager.tools, an insertion-ordered dict
    lastExec,              \* the latest direct execute_tool call and what it did
    lastReg,               \* name -> <<>> or <<the arguments of its latest register_tool call>>
    \* ---- history variables of the running solve call ----
    llmCalls,              \* complex_llm_call calls issued by this solve call
    events,                \* one record per started iteration
    earlierCalls,          \* an earlier solve call has ended on this agent instance
    \* ---- MemoryManager ----
    now,                   \* the wall clock read by datetime.now()
    short_term_memory,     \* manager -> MemoryManager.short_term_memory
    archive,               \* <<user, day>> -> the file memory_storage/<user>_<day>.json
    addResult,             \* manager -> outcome of its latest add_conversation
    added,                 \* manager -> every entry it appended, in order
    evicted,               \* manager -> every entry it popped, in order
    ioFailed,              \* an archive read or write has failed so far
    lastRecall,            \* the latest recall_memory call and what it did
    \* ---- OutputParser used on its own ----
    patterns,              \* the three pattern attributes of the OutputParser instance
    parseText,             \* <<>> or <<the text given to parse>>
    parseResults,          \* what each parse call on parseText returned, in order
    lastFormat,            \* the latest format_observation / format_tool_response call
    \* ---- _move_to_long_term_memory step by step ----
    evPc,                  \* manager -> "idle" | "pop" (line 50) | "read" (line 58) | "write" (line 66)
    evLocal,               \* manager -> the locals oldest and memories of its running eviction
    evRaced,               \* the entries whose eviction ran while another one of the same file did
    \* ---- views.py ----
    agent_cache,           \* user id -> <<>> (no key) or <<the cached agent instance>>
    requests,              \* request -> position and locals of its chat_api call
    agentsCreated,         \* ReActAgent instances constructed so far (the next one's identity)
    clears,                \* clear_memory calls so far
    \* ---- ModelHub calls step by step ----
    calls                  \* call -> position, arguments and history of a complex_llm_call
                           \* or lightweight_llm_call on the one ModelHub instance

solveVars == <<pc, user_input, iteration, conversation_history, final_answer,
               prompt, result, max_iterations, fallback_model, use_fallback,
               tools, lastExec, lastReg, llmCalls, events, earlierCalls>>
memVars   == <<now, short_term_memory, archive, addResult, added, evicted, ioFailed>>
recallVars == <<lastRecall>>
parseVars == <<patterns, parseText, parseResults, lastFormat>>
evictVars == <<evPc, evLocal, evRaced>>
cacheVars == <<agent_cache, requests, agentsCreated, clears>>
hubVars == <<calls>>
otherVars == <<recallVars, parseVars, evictVars, cacheVars, hubVars>>
\* solveVars without the ModelHub's flag
loopVars == <<pc, user_input, iteration, conversation_history, final_answer,
              prompt, result, max_iterations, fallback_model,
              tools, lastExec, lastReg, llmCalls, events, earlierCalls>>
vars      == <<solveVars, memVars, otherVars>>

(***************************************************************************)
(* Tokens                                                                  *)
(***************************************************************************)
FA == "Final Answer: "
TH == "Thought: "
AC == "Action: "
NL == "<newline>"
SP == " "
OBS == "Observation: "
Labels == {FA, TH, AC}

\* str.rstrip() of a label that ends the text removes its trailing blank
TrimmedLabel(t) ==
    CASE t = FA -> "Final Answer:"
      [] t = TH -> "Thought:"
      [] t = AC -> "Action:"
      [] OTHER  -> t

\* tokens whose first character is in [A-Z]
CapitalTokens == Labels \cup {"Final Answer:", "Thought:", "Action:", OBS, "Done"}
IsCapital(t) == t \in CapitalTokens

IsWs(t) == t \in {SP, NL}

\* JSON payloads that a completion may carry after "Action: " (' stands for ")
jKnown     == "{'tool': 'get_sensor_data', 'parameters': {'sensor_type': 'co2'}}"
jUnknown   == "{'tool': 'fly_drone', 'parameters': {}}"
jBadParams == "{'tool': 'analyze_trends', 'parameters': [1]}"
jNoParams  == "{'tool': 'generate_dashboard'}"
jEmpty     == "{}"
jList      == "[1, 2]"
jBroken    == "{'tool': 'get_sensor_data'"
JsonTokens == {jKnown, jUnknown, jBadParams, jNoParams, jEmpty, jList, jBroken}

Min(S) == CHOOSE x \in S : \A y \in S : x <= y

(***************************************************************************)
(* str.strip()                                                             *)
(***************************************************************************)
RECURSIVE LStrip(_)
LStrip(s) == IF s # <<>> /\ IsWs(Head(s)) THEN LStrip(Tail(s)) ELSE s

RECURSIVE RStrip(_)
RStrip(s) ==
    IF s # <<>> /\ IsWs(s[Len(s)]) THEN RStrip(SubSeq(s, 1, Len(s) - 1)) ELSE s

Strip(s) ==
    LET t == RStrip(LStrip(s))
    IN  IF t # <<>> /\ t[Len(t)] \in Labels
        THEN SubSeq(t, 1, Len(t) - 1) \o <<TrimmedLabel(t[Len(t)])>>
        ELSE t

(***************************************************************************)
(* re.search(r"<label>(.*?)(?=\n[A-Z]|$)", text, re.DOTALL):               *)
(* <<>> when there is no match, else <<group(1)>>.                         *)
(***************************************************************************)
ReSearch(label, text) ==
    LET starts == {i \in 1..Len(text) : text[i] = label}
    IN  IF starts = {} THEN <<>>
        ELSE LET i == Min(starts)
                 stops == {j \in (i + 1)..(Len(text) + 1) :
                              \/ j = Len(text) + 1
                              \/ /\ text[j] = NL
                                 /\ j + 1 <= Len(text)
                                 /\ IsCapital(text[j + 1])}
             IN  <<SubSeq(text, i + 1, Min(stops) - 1)>>

(***************************************************************************)
(* json.loads of the stripped group, then .get("tool") and                 *)
(* .get("parameters", {}).                                                 *)
(*   kind "object"  : a JSON object                                        *)
(*   kind "value"   : valid JSON that is no object (.get raises)           *)
(*   kind "invalid" : json.JSONDecodeError                                 *)
(* parameters: "kwargs" is a dict the handler accepts, "notmapping" a      *)
(* value that ** cannot expand.                                            *)
(***************************************************************************)
json_loads(s) ==
    IF Len(s) # 1 THEN [kind |-> "invalid", tool |-> "None", parameters |-> "kwargs"]
    ELSE CASE s[1] = jKnown     -> [kind |-> "object", tool |-> "get_sensor_data", parameters |-> "kwargs"]
           [] s[1] = jUnknown   -> [kind |-> "object", tool |-> "fly_drone", parameters |-> "kwargs"]
           [] s[1] = jBadParams -> [kind |-> "object", tool |-> "analyze_trends", parameters |-> "notmapping"]
           [] s[1] = jNoParams  -> [kind |-> "object", tool |-> "generate_dashboard", parameters |-> "kwargs"]
           [] s[1] = jEmpty     -> [kind |-> "object", tool |-> "None", parameters |-> "kwargs"]
           [] s[1] = jList      -> [kind |-> "value", tool |-> "None", parameters |-> "kwargs"]
           [] OTHER             -> [kind |-> "invalid", tool |-> "None", parameters |-> "kwargs"]

(***************************************************************************)
(* OutputParser.parse.  The result is one record shape for all variants;   *)
(* type "none" is the Python None.  thought is <<>> for None.              *)
(***************************************************************************)
ParseNone == [type |-> "none", content |-> <<>>, thought |-> <<>>,
              tool |-> "None", parameters |-> "kwargs"]

\* parse that returns the whole text as a Thought when no pattern matches
parse_WholeTextAsThought(raw) ==
    LET text == Strip(raw)
        final_answer_match == ReSearch(FA, text)
    IN  IF final_answer_match # <<>>
        THEN [ParseNone EXCEPT !.type = "final_answer",
                               !.content = Strip(final_answer_match[1])]
        ELSE
          LET thought_match == ReSearch(TH, text)
              thought == IF thought_match # <<>> THEN <<Strip(thought_match[1])>> ELSE <<>>
              action_match == ReSearch(AC, text)
          IN  IF action_match # <<>>
              THEN LET action_json == json_loads(Strip(action_match[1]))
                   IN  IF action_json.kind = "object"
                       THEN [ParseNone EXCEPT !.type = "action",
                                              !.thought = thought,
                                              !.tool = action_json.tool,
                                              !.parameters = action_json.parameters]
                       ELSE ParseNone
              ELSE IF thought # <<>> /\ thought[1] # <<>>
                   THEN [ParseNone EXCEPT !.type = "thought", !.content = thought[1]]
                   ELSE IF text # <<>>
                   THEN [ParseNone EXCEPT !.type = "thought", !.content = text]
                   ELSE ParseNone

parse(raw) ==
    LET text == Strip(raw)
        final_answer_match == ReSearch(FA, text)
    IN  IF final_answer_match # <<>>
        THEN [ParseNone EXCEPT !.type = "final_answer",
                               !.content = Strip(final_answer_match[1])]
        ELSE
          LET thought_match == ReSearch(TH, text)
              thought == IF thought_match # <<>> THEN <<Strip(thought_match[1])>> ELSE <<>>
              action_match == ReSearch(AC, text)
          IN  IF action_match # <<>>
              THEN LET action_json == json_loads(Strip(action_match[1]))
                   IN  IF action_json.kind = "object"
                       THEN [ParseNone EXCEPT !.type = "action",
                                              !.thought = thought,
                                              !.tool = action_json.tool,
                                              !.parameters = action_json.parameters]
                       ELSE ParseNone
              ELSE IF thought # <<>> /\ thought[1] # <<>>
                   THEN [ParseNone EXCEPT !.type = "thought", !.content = thought[1]]
                   ELSE ParseNone

(***************************************************************************)
(* ToolManager.  The dict self.tools is a sequence of entries in insertion *)
(* order; assigning to an existing key keeps the key's position.           *)
(***************************************************************************)
HasTool(reg, name) == \E i \in 1..Len(reg) : reg[i].name = name

ToolIndex(reg, name) == CHOOSE i \in 1..Len(reg) : reg[i].name = name

\* register_tool that keeps the first registration of a name
register_tool_FirstWriteWins(reg, name, func, description) ==
    IF HasTool(reg, name) THEN reg
    ELSE Append(reg, [name |-> name, func |-> func, description |-> description])

register_tool(reg, name, func, description) ==
    LET entry == [name |-> name, func |-> func, description |-> description]
    IN  IF HasTool(reg, name)
        THEN [reg EXCEPT ![ToolIndex(reg, name)] = entry]
        ELSE Append(reg, entry)

RegisteredTools ==
    register_tool(register_tool(register_tool(register_tool(
    register_tool(register_tool(register_tool(register_tool(<<>>,
        "get_sensor_data", "_get_sensor_data",
        "Get readings from specified sensor for a time range"),
        "analyze_trends", "_analyze_trends", "Analyze trends in sensor data"),
        "check_thresholds", "_check_thresholds",
        "Check if readings are within acceptable ranges"),
        "compare_sensors", "_compare_sensors",
        "Compare readings between different sensors"),
        "suggest_adjustments", "_suggest_adjustments",
        "Suggest adjustments based on current conditions"),
        "optimize_environment", "_optimize_environment",
        "Optimize environmental conditions"),
        "generate_dashboard", "_generate_dashboard",
        "Generate environmental dashboard"),
        "plot_trends", "_plot_trends", "Create trend visualization")

\* the names in the order in which _register_tools registers them
StartupNames ==
    <<"get_sensor_data", "analyze_trends", "check_thresholds", "compare_sensors",
      "suggest_adjustments", "optimize_environment", "generate_dashboard", "plot_trends">>

\* "\n".join(f"{name}: {tool['description']}" ...)
RECURSIVE DescribeFrom(_, _)
DescribeFrom(reg, i) ==
    IF i > Len(reg) THEN <<>>
    ELSE <<reg[i].name, ": ", reg[i].description>>
         \o (IF i < Len(reg) THEN <<NL>> ELSE <<>>)
         \o DescribeFrom(reg, i + 1)

\* get_tools_description that ends every line with a newline instead of joining
get_tools_description_TrailingNewline(reg) ==
    IF reg = <<>> THEN <<>> ELSE DescribeFrom(reg, 1) \o <<NL>>

get_tools_description(reg) == DescribeFrom(reg, 1)

(***************************************************************************)
(* What a handler does when it is called is the environment's choice:      *)
(* it returns a value (shown by its str()) or raises (shown by str(e)).    *)
(***************************************************************************)
HandlerOutcomes ==
    { [kind |-> "return", text |-> <<"{'current': 21.5}">>],
      [kind |-> "raise",  text |-> <<"Unknown sensor type: x">>] }

NoHandlerCall == [kind |-> "none", text |-> <<>>]

\* execute_tool without the membership test of line 91: the lookup raises KeyError
execute_tool_NoMembershipTest(reg, tool_name, parameters, outcome) ==
    IF ~HasTool(reg, tool_name)
    THEN [raised |-> TRUE, text |-> <<"KeyError: ", tool_name>>,
          handler |-> "none", tools |-> reg]
    ELSE IF parameters = "notmapping"
    THEN [raised |-> TRUE, text |-> <<"argument after ** must be a mapping">>,
          handler |-> "none", tools |-> reg]
    ELSE [raised |-> outcome.kind = "raise", text |-> outcome.text,
          handler |-> reg[ToolIndex(reg, tool_name)].func, tools |-> reg]

\* ToolManager.execute_tool: raised, the result's or the error's text, the
\* handler that ran ("none" when no handler ran), and the registry afterwards.
execute_tool(reg, tool_name, parameters, outcome) ==
    IF ~HasTool(reg, tool_name)
    THEN [raised |-> TRUE, text |-> <<"Unknown tool: ", tool_name>>,
          handler |-> "none", tools |-> reg]
    ELSE IF parameters = "notmapping"
    THEN [raised |-> TRUE, text |-> <<"argument after ** must be a mapping">>,
          handler |-> "none", tools |-> reg]
    ELSE [raised |-> outcome.kind = "raise", text |-> outcome.text,
          handler |-> reg[ToolIndex(reg, tool_name)].func, tools |-> reg]

\* direct use of the ToolManager by a caller
RegisterNames == {"get_sensor_data", "calculator"}
RegisterFuncs == {"h1", "h2"}
RegisterDescriptions == {"d1", "d2"}
ExecuteNames == RegisterNames \cup {"fly_drone", "plot_trends"}
ParameterValues == {"kwargs", "notmapping"}

NoExec == [called |-> FALSE, name |-> "None", parameters |-> "kwargs",
           toolsBefore |-> <<>>, toolsAfter |-> <<>>, raised |-> FALSE, text |-> <<>>,
           handler |-> "none"]

\* ToolManager.register_tool called on the shared registry
RegisterTool(name, func, description) ==
    /\ tools' = register_tool(tools, name, func, description)
    /\ lastReg' = [lastReg EXCEPT ![name] =
                       <<[func |-> func, description |-> description]>>]
    /\ UNCHANGED <<pc, user_input, iteration, conversation_history, final_answer,
                   prompt, result, max_iterations, fallback_model, use_fallback,
                   lastExec, llmCalls, events, earlierCalls>>
    /\ UNCHANGED <<now, short_term_memory, archive, addResult, added, evicted, ioFailed>>
    /\ UNCHANGED otherVars

\* ToolManager.execute_tool called on the shared registry
ExecuteTool(name, parameters, outcome) ==
    /\ LET r == execute_tool(tools, name, parameters, outcome)
       IN  /\ tools' = r.tools
           /\ lastExec' = [called |-> TRUE, name |-> name, parameters |-> parameters,
                           toolsBefore |-> tools, toolsAfter |-> r.tools,
                           raised |-> r.raised, text |-> r.text, handler |-> r.handler]
    /\ UNCHANGED <<pc, user_input, iteration, conversation_history, final_answer,
                   prompt, result, max_iterations, fallback_model, use_fallback,
                   lastReg, llmCalls, events, earlierCalls>>
    /\ UNCHANGED <<now, short_term_memory, archive, addResult, added, evicted, ioFailed>>
    /\ UNCHANGED otherVars

(***************************************************************************)
(* ModelHub.complex_llm_call.  The two provider calls are the              *)
(* environment's choice: each returns a text or raises.                    *)
(***************************************************************************)
complex_llm_call(flag, fbm, primary, fallback) ==
    IF primary.ok
    THEN [raised |-> FALSE, text |-> primary.text, use_fallback |-> flag]
    ELSE IF fbm /\ ~flag
         THEN IF fallback.ok
              THEN [raised |-> FALSE, text |-> fallback.text, use_fallback |-> FALSE]
              ELSE [raised |-> TRUE, text |-> <<>>, use_fallback |-> FALSE]
         ELSE [raised |-> TRUE, text |-> <<>>, use_fallback |-> flag]

(***************************************************************************)
(* PromptTemplate.get_complex_prompt: the three values rendered into the   *)
(* template.                                                               *)
(***************************************************************************)
RECURSIVE JoinHistory(_, _)
JoinHistory(h, i) ==
    IF i > Len(h) THEN <<>>
    ELSE <<h[i].role, ": ">> \o h[i].content
         \o (IF i < Len(h) THEN <<NL>> ELSE <<>>)
         \o JoinHistory(h, i + 1)

get_complex_prompt(ui, tools_description, chat_history) ==
    [user_input |-> ui,
     tools_description |-> tools_description,
     chat_history |-> IF chat_history # <<>> THEN chat_history
                      ELSE <<"No previous conversation">>]

(***************************************************************************)
(* ReActAgent.solve                                                        *)
(***************************************************************************)
MaxIterationsDefault == 5

APOLOGY ==
    <<"I apologize, but I was unable to complete the task within the allowed iterations.">>

\* Python truthiness of final_answer: None and "" are falsy
Truthy(opt) == opt # <<>> /\ opt[1] # <<>>

\* the loop test with <= for <
LoopCondition_OffByOne == iteration <= max_iterations /\ ~Truthy(final_answer)

\* line 36
LoopCondition == iteration < max_iterations /\ ~Truthy(final_answer)

UserInputs == {"What is 2+2?"}

\* the completions the provider may return during solve
SolveCompletions ==
    { <<TH, "word">>,
      <<TH, "word", NL, AC, jKnown>>,
      <<AC, jUnknown>>,
      <<AC, jBadParams>>,
      <<AC, jBroken>>,
      <<"word">>,
      <<TH, "word", NL, FA, "4">>,
      <<FA, NL, TH, "word">>,
      <<FA, "4", NL, AC, jKnown>> }

\* a provider call returns a text or raises
ProviderFailure == [ok |-> FALSE, text |-> <<>>]
ProviderOutcomes ==
    {ProviderFailure} \cup {[ok |-> TRUE, text |-> t] : t \in SolveCompletions}

\* the record of one started iteration: what the parser returned, what the
\* dispatcher did, and the loop's counters when the iteration started
Event(kind, parsed, step) ==
    [kind |-> kind, content |-> parsed.content, tool |-> parsed.tool,
     parameters |-> parsed.parameters, handler |-> step.handler,
     toolRaised |-> step.toolRaised, toolText |-> step.toolText,
     histBefore |-> Len(conversation_history), iterBefore |-> iteration]

\* solve whose history list outlives the call (an attribute of the agent
\* instead of the local of line 33)
SolveBegin_KeepsHistory(ui) ==
    /\ pc \in {"idle", "returned", "raised"}
    /\ pc' = "loop"
    /\ user_input' = ui
    /\ iteration' = 0
    /\ final_answer' = <<>>
    /\ prompt' = <<>>
    /\ result' = <<>>
    /\ llmCalls' = 0
    /\ events' = <<>>
    /\ earlierCalls' = (pc # "idle")
    /\ UNCHANGED <<conversation_history, max_iterations, fallback_model, use_fallback,
                   tools, lastExec, lastReg>>
    /\ UNCHANGED memVars
    /\ UNCHANGED otherVars

\* lines 32-34
SolveBegin(ui) ==
    /\ pc \in {"idle", "returned", "raised"}
    /\ pc' = "loop"
    /\ user_input' = ui
    /\ iteration' = 0
    /\ conversation_history' = <<>>
    /\ final_answer' = <<>>
    /\ prompt' = <<>>
    /\ result' = <<>>
    /\ llmCalls' = 0
    /\ events' = <<>>
    /\ earlierCalls' = (pc # "idle")
    /\ UNCHANGED <<max_iterations, fallback_model, use_fallback, tools, lastExec, lastReg>>
    /\ UNCHANGED memVars
    /\ UNCHANGED otherVars

\* an iteration that reaches neither a history append nor the dispatcher
NoStep == [entries |-> <<>>, final |-> <<>>, handler |-> "none", toolRaised |-> FALSE,
           toolText |-> <<>>, tools |-> <<>>]

\* StepOf whose except branch (lines 71-75) forgets the history append
StepOf_ErrorNotAppended(parsed, outcome) ==
    CASE parsed.type = "thought" ->
           [NoStep EXCEPT
              !.entries = <<[role |-> "assistant", content |-> <<TH>> \o parsed.content]>>,
              !.final = final_answer, !.tools = tools]
      [] parsed.type = "action" ->
           LET r == execute_tool(tools, parsed.tool, parsed.parameters, outcome)
           IN  [entries |-> IF r.raised THEN <<>>
                            ELSE <<[role |-> "system", content |-> <<OBS>> \o r.text]>>,
                final |-> final_answer, handler |-> r.handler, toolRaised |-> r.raised,
                toolText |-> r.text, tools |-> r.tools]
      [] OTHER ->
           [NoStep EXCEPT
              !.entries = <<[role |-> "assistant", content |-> <<FA>> \o parsed.content]>>,
              !.final = <<parsed.content>>, !.tools = tools]

\* StepOf whose Action branch also appends an "Action: using tool X" entry
StepOf_ActionEntryAppended(parsed, outcome) ==
    CASE parsed.type = "thought" ->
           [NoStep EXCEPT
              !.entries = <<[role |-> "assistant", content |-> <<TH>> \o parsed.content]>>,
              !.final = final_answer, !.tools = tools]
      [] parsed.type = "action" ->
           LET r == execute_tool(tools, parsed.tool, parsed.parameters, outcome)
           IN  [entries |-> <<[role |-> "assistant",
                               content |-> <<AC, "using tool ", parsed.tool>>],
                              [role |-> "system",
                               content |-> IF r.raised
                                           THEN <<OBS, "Error executing tool: ">> \o r.text
                                           ELSE <<OBS>> \o r.text]>>,
                final |-> final_answer, handler |-> r.handler, toolRaised |-> r.raised,
                toolText |-> r.text, tools |-> r.tools]
      [] OTHER ->
           [NoStep EXCEPT
              !.entries = <<[role |-> "assistant", content |-> <<FA>> \o parsed.content]>>,
              !.final = <<parsed.content>>, !.tools = tools]

\* lines 54-80: what an iteration whose completion parsed appends to the
\* history, the new final_answer, and what the dispatcher did
StepOf(parsed, outcome) ==
    CASE parsed.type = "thought" ->
           [NoStep EXCEPT
              !.entries = <<[role |-> "assistant", content |-> <<TH>> \o parsed.content]>>,
              !.final = final_answer, !.tools = tools]
      [] parsed.type = "action" ->
           LET r == execute_tool(tools, parsed.tool, parsed.parameters, outcome)
           IN  [entries |-> <<[role |-> "system",
                               content |-> IF r.raised
                                           THEN <<OBS, "Error executing tool: ">> \o r.text
                                           ELSE <<OBS>> \o r.text]>>,
                final |-> final_answer, handler |-> r.handler, toolRaised |-> r.raised,
                toolText |-> r.text, tools |-> r.tools]
      [] OTHER ->
           [NoStep EXCEPT
              !.entries = <<[role |-> "assistant", content |-> <<FA>> \o parsed.content]>>,
              !.final = <<parsed.content>>, !.tools = tools]

\* one pass through the loop body, lines 36-82
SolveIterate ==
    /\ pc = "loop"
    /\ LoopCondition
    /\ \E primary \in ProviderOutcomes :
       \E fallback \in (IF primary.ok \/ ~fallback_model \/ use_fallback
                        THEN {ProviderFailure} ELSE ProviderOutcomes) :
         LET chat_history_str == JoinHistory(conversation_history, 1)
             response == complex_llm_call(use_fallback, fallback_model, primary, fallback)
             parsed == parse(response.text)
         IN  /\ prompt' = <<get_complex_prompt(user_input, get_tools_description(tools),
                                               chat_history_str)>>
             /\ llmCalls' = llmCalls + 1
             /\ use_fallback' = response.use_fallback
             /\ IF response.raised
                THEN /\ pc' = "raised"
                     /\ events' = Append(events, Event("provider_error", ParseNone, NoStep))
                     /\ UNCHANGED <<iteration, conversation_history, final_answer, tools>>
                ELSE IF parsed.type = "none"
                THEN /\ pc' = "after"
                     /\ events' = Append(events, Event("parse_failure", ParseNone, NoStep))
                     /\ UNCHANGED <<iteration, conversation_history, final_answer, tools>>
                ELSE \E outcome \in (IF parsed.type = "action" THEN HandlerOutcomes
                                     ELSE {NoHandlerCall}) :
                     LET step == StepOf(parsed, outcome)
                     IN  /\ pc' = "loop"
                         /\ conversation_history' = conversation_history \o step.entries
                         /\ final_answer' = step.final
                         /\ tools' = step.tools
                         /\ iteration' = iteration + 1
                         /\ events' = Append(events, Event(parsed.type, parsed, step))
    /\ UNCHANGED <<user_input, result, max_iterations, fallback_model, lastExec, lastReg,
                   earlierCalls>>
    /\ UNCHANGED memVars
    /\ UNCHANGED otherVars

\* SolveReturn with "if final_answer is None" for "if not final_answer"
SolveReturn_IsNoneTest ==
    /\ \/ pc = "after"
       \/ pc = "loop" /\ ~LoopCondition
    /\ pc' = "returned"
    /\ LET fa == IF final_answer = <<>> THEN <<APOLOGY>> ELSE final_answer
       IN  /\ final_answer' = fa
           /\ result' = <<[final_answer |-> fa[1],
                           conversation_history |-> conversation_history,
                           iterations |-> iteration]>>
    /\ UNCHANGED <<user_input, iteration, conversation_history, prompt, max_iterations,
                   fallback_model, use_fallback, tools, lastExec, lastReg, llmCalls,
                   events, earlierCalls>>
    /\ UNCHANGED memVars
    /\ UNCHANGED otherVars

\* lines 84-91
SolveReturn ==
    /\ \/ pc = "after"
       \/ pc = "loop" /\ ~LoopCondition
    /\ pc' = "returned"
    /\ LET fa == IF ~Truthy(final_answer) THEN <<APOLOGY>> ELSE final_answer
       IN  /\ final_answer' = fa
           /\ result' = <<[final_answer |-> fa[1],
                           conversation_history |-> conversation_history,
                           iterations |-> iteration]>>
    /\ UNCHANGED <<user_input, iteration, conversation_history, prompt, max_iterations,
                   fallback_model, use_fallback, tools, lastExec, lastReg, llmCalls,
                   events, earlierCalls>>
    /\ UNCHANGED memVars
    /\ UNCHANGED otherVars

(***************************************************************************)
(* MemoryManager                                                           *)
(***************************************************************************)
memory_threshold == 10

TicksPerDay == 4      \* clock readings per calendar day
MaxClock == 14        \* the clock stops here
MaxAdds == 12         \* add_conversation calls per manager

Managers == {"m1"}
\* the manager instances of user u1 that share the archive directory
Instances == {"m1", "m2"}
Users == {"u1", "u2"}
user_id(m) == "u1"
Days == 0..((MaxClock + 1) \div TicksPerDay)

UserMessages == {"hello"}
AiResponses == {"hi there"}

\* datetime.isoformat(): a date part and a time part
isoformat(t) == [date |-> t \div TicksPerDay, time |-> t % TicksPerDay]
\* datetime.fromisoformat()
fromisoformat(s) == s.date * TicksPerDay + s.time
\* datetime.strftime('%Y-%m-%d') of a clock reading
strftime_date(t) == t \div TicksPerDay

\* an archive file: missing, or present and either a JSON list or undecodable
NoFile == [exists |-> FALSE, ok |-> FALSE, entries |-> <<>>]
CorruptFile == [exists |-> TRUE, ok |-> FALSE, entries |-> <<>>]
JsonFile(entries) == [exists |-> TRUE, ok |-> TRUE, entries |-> entries]

\* what the file system does to one eviction
IoOutcomes == {"ok", "read_fails", "open_fails", "dump_fails"}

\* the file named after the day on which the eviction runs
ArchiveKey_EvictionDay(uid, entry) == <<uid, strftime_date(now)>>

\* the file the eviction of an entry reads and rewrites, lines 52-54
ArchiveKey(uid, entry) == <<uid, strftime_date(fromisoformat(entry.timestamp))>>

\* MemoryManager._move_to_long_term_memory on short-term list stm:
\* the list and the archive afterwards, whether it raised, what it popped.
move_to_long_term_memory(stm, arch, uid, io) ==
    IF stm = <<>>
    THEN [stm |-> stm, archive |-> arch, raised |-> FALSE, popped |-> <<>>]
    ELSE
      LET oldest == Head(stm)
          rest == Tail(stm)
          key == ArchiveKey(uid, oldest)
          file == arch[key]
          readFails == file.exists /\ (~file.ok \/ io = "read_fails")
          memories == IF file.exists THEN file.entries ELSE <<>>
      IN  IF readFails
          THEN [stm |-> rest, archive |-> arch, raised |-> TRUE, popped |-> <<oldest>>]
          ELSE IF io = "open_fails"
          THEN [stm |-> rest, archive |-> arch, raised |-> TRUE, popped |-> <<oldest>>]
          ELSE IF io = "dump_fails"
          THEN [stm |-> rest, archive |-> [arch EXCEPT ![key] = CorruptFile],
                raised |-> TRUE, popped |-> <<oldest>>]
          ELSE [stm |-> rest,
                archive |-> [arch EXCEPT ![key] = JsonFile(Append(memories, oldest))],
                raised |-> FALSE, popped |-> <<oldest>>]

\* add_conversation with >= for > in the threshold test of line 32
add_conversation_EvictsAtThreshold(stm, arch, uid, t, user_message, ai_response, io) ==
    LET conversation == [timestamp |-> isoformat(t), user |-> user_message,
                         assistant |-> ai_response]
        appended == Append(stm, conversation)
    IN  IF Len(appended) >= memory_threshold
        THEN move_to_long_term_memory(appended, arch, uid, io)
        ELSE [stm |-> appended, archive |-> arch, raised |-> FALSE, popped |-> <<>>]

\* MemoryManager.add_conversation, lines 20-34
add_conversation(stm, arch, uid, t, user_message, ai_response, io) ==
    LET conversation == [timestamp |-> isoformat(t), user |-> user_message,
                         assistant |-> ai_response]
        appended == Append(stm, conversation)
    IN  IF Len(appended) > memory_threshold
        THEN move_to_long_term_memory(appended, arch, uid, io)
        ELSE [stm |-> appended, archive |-> arch, raised |-> FALSE, popped |-> <<>>]

AddConversation(m) ==
    /\ Len(added[m]) < MaxAdds
    /\ now <= MaxClock
    /\ \E user_message \in UserMessages, ai_response \in AiResponses, io \in IoOutcomes :
         LET r == add_conversation(short_term_memory[m], archive, user_id(m), now,
                                   user_message, ai_response, io)
         IN  /\ short_term_memory' = [short_term_memory EXCEPT ![m] = r.stm]
             /\ archive' = r.archive
             /\ addResult' = [addResult EXCEPT ![m] = IF r.raised THEN "raised" ELSE "returned"]
             /\ added' = [added EXCEPT ![m] =
                            Append(@, [timestamp |-> isoformat(now), user |-> user_message,
                                       assistant |-> ai_response])]
             /\ evicted' = [evicted EXCEPT ![m] = @ \o r.popped]
             /\ ioFailed' = (ioFailed \/ r.raised)
    /\ now' = now + 1
    /\ UNCHANGED solveVars
    /\ UNCHANGED otherVars

\* time passes between calls
Tick ==
    /\ now < MaxClock
    /\ now' = now + 1
    /\ UNCHANGED <<short_term_memory, archive, addResult, added, evicted, ioFailed>>
    /\ UNCHANGED solveVars
    /\ UNCHANGED otherVars

(***************************************************************************)
(* MemoryManager.recall_memory                                             *)
(***************************************************************************)
\* a date component as the caller passes it: an int, or a value of another
\* type (a str such as "1", a float, None)
IntArg(n) == [int |-> TRUE, val |-> n]
NonIntArg == [int |-> FALSE, val |-> 0]

\* the calendar date that strftime('%Y-%m-%d') prints for day d of the clock
CalendarDate(d) == <<2024, 1, d + 1>>

\* the day whose files carry date_str in their name: <<>> when no day does
DayOfDateStr(date_str) ==
    LET ds == {d \in Days : CalendarDate(d) = date_str}
    IN  IF ds = {} THEN <<>> ELSE <<CHOOSE d \in ds : TRUE>>

\* datetime.fromisoformat(ts).strftime('%Y-%m-%d %H:%M:%S')
strftime_datetime(t) == [date |-> CalendarDate(t \div TicksPerDay), time |-> t % TicksPerDay]

\* lines 97-101: the three lines printed for each archived entry
RECURSIVE RecallLines(_)
RecallLines(memories) ==
    IF memories = <<>> THEN <<>>
    ELSE <<[ts |-> strftime_datetime(fromisoformat(Head(memories).timestamp)),
            human |-> Head(memories).user,
            assistant |-> Head(memories).assistant]>> \o RecallLines(Tail(memories))

\* what the file system does to one recall
RecallIoOutcomes == {"ok", "read_fails", "open_fails"}

\* the dates a caller asks for: the days of the clock, a month and a day out
\* of range, and one component at a time that is no int
RecallDate(year, month, day) == [year |-> year, month |-> month, day |-> day]
RecallDates ==
    {RecallDate(IntArg(2024), IntArg(1), IntArg(d + 1)) : d \in Days}
    \cup {RecallDate(IntArg(2024), IntArg(13), IntArg(1)),
          RecallDate(IntArg(2024), IntArg(1), IntArg(0)),
          RecallDate(NonIntArg, IntArg(1), IntArg(1)),
          RecallDate(IntArg(2024), NonIntArg, IntArg(1)),
          RecallDate(IntArg(2024), IntArg(1), NonIntArg)}

NoRecall == [called |-> FALSE, manager |-> "none", year |-> NonIntArg, month |-> NonIntArg,
             day |-> NonIntArg, io |-> "ok", raised |-> FALSE, kind |-> "none",
             message |-> <<>>, date_str |-> <<>>, lines |-> <<>>]

\* the outcome of recall_memory: raised to the caller, or a returned text made
\* of a fixed message, the date string and the lines of the entries
RecallResult(raised, kind, message, date_str, lines, stm, arch) ==
    [raised |-> raised, kind |-> kind, message |-> message, date_str |-> date_str,
     lines |-> lines, stm |-> stm, archive |-> arch]

\* recall_memory that writes an empty list when the file is missing
recall_memory_CreatesFile(stm, arch, uid, year, month, day, io) ==
    IF ~month.int \/ ~day.int
    THEN RecallResult(TRUE, "exception", <<>>, <<>>, <<>>, stm, arch)
    ELSE IF ~year.int
    THEN RecallResult(FALSE, "invalid_date",
                      <<"Error: Invalid date provided. Please provide valid year, month, and day as integers. Details: ">>,
                      <<>>, <<>>, stm, arch)
    ELSE
      LET date_str == <<year.val, month.val, day.val>>
          d == DayOfDateStr(date_str)
          file == IF d = <<>> THEN NoFile ELSE arch[<<uid, d[1]>>]
      IN  IF ~file.exists
          THEN RecallResult(FALSE, "no_file", <<"No memory file found for the date: ">>,
                            date_str, <<>>, stm,
                            IF d = <<>> THEN arch
                            ELSE [arch EXCEPT ![<<uid, d[1]>>] = JsonFile(<<>>)])
          ELSE IF io # "ok"
          THEN RecallResult(FALSE, "unexpected",
                            <<"An unexpected error occurred while recalling memory: ">>,
                            date_str, <<>>, stm, arch)
          ELSE IF ~file.ok
          THEN RecallResult(FALSE, "invalid_date",
                            <<"Error: Invalid date provided. Please provide valid year, month, and day as integers. Details: ">>,
                            date_str, <<>>, stm, arch)
          ELSE IF file.entries = <<>>
          THEN RecallResult(FALSE, "no_memories", <<"No memories found for ">>,
                            date_str, <<>>, stm, arch)
          ELSE RecallResult(FALSE, "memories", <<>>, date_str,
                            RecallLines(file.entries), stm, arch)

\* MemoryManager.recall_memory, lines 73-117.  The log line of line 82
\* formats month and day with :02d before the try block is entered; the
\* try block formats year with :04d (line 85), and its handlers turn a
\* ValueError or TypeError (a json.JSONDecodeError is a ValueError) into the
\* "invalid date" text and every other Exception into the "unexpected" text.
recall_memory(stm, arch, uid, year, month, day, io) ==
    IF ~month.int \/ ~day.int
    THEN RecallResult(TRUE, "exception", <<>>, <<>>, <<>>, stm, arch)
    ELSE IF ~year.int
    THEN RecallResult(FALSE, "invalid_date",
                      <<"Error: Invalid date provided. Please provide valid year, month, and day as integers. Details: ">>,
                      <<>>, <<>>, stm, arch)
    ELSE
      LET date_str == <<year.val, month.val, day.val>>
          d == DayOfDateStr(date_str)
          file == IF d = <<>> THEN NoFile ELSE arch[<<uid, d[1]>>]
      IN  IF ~file.exists
          THEN RecallResult(FALSE, "no_file", <<"No memory file found for the date: ">>,
                            date_str, <<>>, stm, arch)
          ELSE IF io # "ok"
          THEN RecallResult(FALSE, "unexpected",
                            <<"An unexpected error occurred while recalling memory: ">>,
                            date_str, <<>>, stm, arch)
          ELSE IF ~file.ok
          THEN RecallResult(FALSE, "invalid_date",
                            <<"Error: Invalid date provided. Please provide valid year, month, and day as integers. Details: ">>,
                            date_str, <<>>, stm, arch)
          ELSE IF file.entries = <<>>
          THEN RecallResult(FALSE, "no_memories", <<"No memories found for ">>,
                            date_str, <<>>, stm, arch)
          ELSE RecallResult(FALSE, "memories", <<>>, date_str,
                            RecallLines(file.entries), stm, arch)

RecallMemory(m, date, io) ==
    /\ LET r == recall_memory(short_term_memory[m], archive, user_id(m),
                              date.year, date.month, date.day, io)
       IN  /\ short_term_memory' = [short_term_memory EXCEPT ![m] = r.stm]
           /\ archive' = r.archive
           /\ lastRecall' = [called |-> TRUE, manager |-> m, year |-> date.year,
                             month |-> date.month, day |-> date.day, io |-> io,
                             raised |-> r.raised, kind |-> r.kind, message |-> r.message,
                             date_str |-> r.date_str, lines |-> r.lines]
    /\ UNCHANGED <<now, addResult, added, evicted, ioFailed>>
    /\ UNCHANGED <<solveVars, parseVars, evictVars, cacheVars, hubVars>>

\* the storage directory is shared with whatever else writes files into it
\* (it may exist before the manager is built): a file holding an empty list
EmptyListFile(k) ==
    /\ ~archive[k].exists
    /\ archive' = [archive EXCEPT ![k] = JsonFile(<<>>)]
    /\ UNCHANGED <<now, short_term_memory, addResult, added, evicted, ioFailed>>
    /\ UNCHANGED <<solveVars, recallVars, parseVars, evictVars, cacheVars, hubVars>>

(***************************************************************************)
(* Two MemoryManager instances of one user that are alive at the same time *)
(* (two agents of the user, or two worker processes) and take turns: one   *)
(* serves the user for a while, then the other.  Their calls never         *)
(* overlap, and the file system does not fail (MemSpec and RecallSpec have  *)
(* the failures).                                                          *)
(***************************************************************************)
MaxHandovers == 2     \* changes of the serving instance
MaxSharedClock == 22  \* the clock stops here when two instances take turns

\* the instance whose add_conversation read the clock at t
Adder(t) ==
    CHOOSE m \in Instances :
        \E i \in 1..Len(added[m]) : fromisoformat(added[m][i].timestamp) = t

Handovers == Cardinality({t \in 1..(now - 1) : Adder(t) # Adder(t - 1)})

\* m is the serving instance, or the user may be handed over to it
MayServe(m) ==
    IF now = 0 THEN TRUE
    ELSE IF Adder(now - 1) = m THEN TRUE
    ELSE Handovers < MaxHandovers

\* add_conversation on instance m, lines 20-34
InstanceAdd(m, io) ==
    /\ Len(added[m]) < MaxAdds
    /\ now < MaxSharedClock
    /\ MayServe(m)
    /\ \E user_message \in UserMessages, ai_response \in AiResponses :
         LET r == add_conversation(short_term_memory[m], archive, user_id(m), now,
                                   user_message, ai_response, io)
         IN  /\ short_term_memory' = [short_term_memory EXCEPT ![m] = r.stm]
             /\ archive' = r.archive
             /\ addResult' = [addResult EXCEPT ![m] = IF r.raised THEN "raised" ELSE "returned"]
             /\ added' = [added EXCEPT ![m] =
                            Append(@, [timestamp |-> isoformat(now), user |-> user_message,
                                       assistant |-> ai_response])]
             /\ evicted' = [evicted EXCEPT ![m] = @ \o r.popped]
             /\ ioFailed' = (ioFailed \/ r.raised)
    /\ now' = now + 1
    /\ UNCHANGED <<solveVars, recallVars, parseVars, evictVars, cacheVars, hubVars>>

(***************************************************************************)
(* OutputParser.parse applied to arbitrary completion texts                *)
(***************************************************************************)
MaxTextLen == 5       \* tokens in a text given to parse
MaxParses == 2        \* parse calls on one text

ParseTokens == {FA, TH, AC, NL, "word", jKnown, jBroken, jList}
ParseTexts == UNION {[1..n -> ParseTokens] : n \in 0..MaxTextLen}

\* OutputParser.__init__, lines 10-12
InitialPatterns == [thought_pattern |-> TH, action_pattern |-> AC,
                    final_answer_pattern |-> FA]

\* parser.parse(text) on the text of a run
Parse(text) ==
    /\ parseText = <<>>
    /\ parseText' = <<text>>
    /\ parseResults' = <<parse(text)>>
    /\ UNCHANGED <<patterns, lastFormat>>
    /\ UNCHANGED <<solveVars, memVars, recallVars, evictVars, cacheVars, hubVars>>

\* parser.parse(text) once more on the same text
ParseAgain ==
    /\ parseText # <<>>
    /\ Len(parseResults) < MaxParses
    /\ parseResults' = Append(parseResults, parse(parseText[1]))
    /\ UNCHANGED <<patterns, parseText, lastFormat>>
    /\ UNCHANGED <<solveVars, memVars, recallVars, evictVars, cacheVars, hubVars>>

(***************************************************************************)
(* OutputParser.format_tool_response and format_observation.               *)
(*                                                                         *)
(* A Python value is a record: py is its type, v the text of a scalar,     *)
(* items the elements of a list or tuple, or the key/value items of a      *)
(* dict in insertion order.  "nan" is the float nan; "object" is a value   *)
(* of a type the json module does not know (a numpy.int64, a datetime).    *)
(* A str that holds a JSON document has v = "json" and the document in     *)
(* items; a str that is str(x) of a value that is no str has v = "str()"   *)
(* and x in items.                                                         *)
(*                                                                         *)
(* A JSON document is the tree json.dumps writes and json.loads reads:     *)
(* j is "object", "array", "string", "int", "real", "NaN" or "null".       *)
(***************************************************************************)
PyScalar(py, v) == [py |-> py, v |-> v, items |-> <<>>]
PyStr(s) == PyScalar("str", s)
PyList(items) == [py |-> "list", v |-> "", items |-> items]
PyTuple(items) == [py |-> "tuple", v |-> "", items |-> items]
PyDict(items) == [py |-> "dict", v |-> "", items |-> items]
Item(k, val) == [k |-> k, val |-> val]

JNode(j, v, items) == [j |-> j, v |-> v, items |-> items]

\* the types json.dumps accepts as dict keys, all written as JSON strings
KeyTypes == {"str", "int", "float", "none"}

\* json.dumps(value, indent=2): raised (TypeError), or the document written
RECURSIVE json_dumps(_)
json_dumps(value) ==
    CASE value.py = "str"   -> [raised |-> FALSE, doc |-> JNode("string", value.v, <<>>)]
      [] value.py = "int"   -> [raised |-> FALSE, doc |-> JNode("int", value.v, <<>>)]
      [] value.py = "float" -> [raised |-> FALSE, doc |-> JNode("real", value.v, <<>>)]
      [] value.py = "nan"   -> [raised |-> FALSE, doc |-> JNode("NaN", "NaN", <<>>)]
      [] value.py = "none"  -> [raised |-> FALSE, doc |-> JNode("null", "null", <<>>)]
      [] value.py \in {"list", "tuple"} ->
           LET parts == [i \in 1..Len(value.items) |-> json_dumps(value.items[i])]
           IN  IF \E i \in 1..Len(parts) : parts[i].raised
               THEN [raised |-> TRUE, doc |-> JNode("null", "null", <<>>)]
               ELSE [raised |-> FALSE,
                     doc |-> JNode("array", "", [i \in 1..Len(parts) |-> parts[i].doc])]
      [] value.py = "dict" ->
           LET parts == [i \in 1..Len(value.items) |-> json_dumps(value.items[i].val)]
           IN  IF \/ \E i \in 1..Len(parts) : parts[i].raised
                  \/ \E i \in 1..Len(parts) : value.items[i].k.py \notin KeyTypes
               THEN [raised |-> TRUE, doc |-> JNode("null", "null", <<>>)]
               ELSE [raised |-> FALSE,
                     doc |-> JNode("object", "",
                                   [i \in 1..Len(parts) |->
                                       Item(value.items[i].k.v, parts[i].doc)])]
      [] OTHER -> [raised |-> TRUE, doc |-> JNode("null", "null", <<>>)]

\* json.loads of a document: every key is a str, every array a list, and a
\* NaN literal a new float object
RECURSIVE json_loads_document(_)
json_loads_document(doc) ==
    CASE doc.j = "string" -> PyStr(doc.v)
      [] doc.j = "int"    -> PyScalar("int", doc.v)
      [] doc.j = "real"   -> PyScalar("float", doc.v)
      [] doc.j = "NaN"    -> PyScalar("nan", "nan")
      [] doc.j = "array"  ->
           PyList([i \in 1..Len(doc.items) |-> json_loads_document(doc.items[i])])
      [] doc.j = "object" ->
           PyDict([i \in 1..Len(doc.items) |->
                      Item(PyStr(doc.items[i].k), json_loads_document(doc.items[i].val))])
      [] OTHER -> PyScalar("none", "None")

\* Python's == on two values that are different objects: nan equals nothing,
\* a tuple is no list, an int key is no str key.  (The numbers of
\* ObservationScalars are either int or float, never equal across the two.)
RECURSIVE PyEq(_, _)
PyEq(a, b) ==
    IF a.py = "nan" \/ b.py = "nan" \/ a.py # b.py THEN FALSE
    ELSE IF a.py \in {"list", "tuple"}
    THEN /\ Len(a.items) = Len(b.items)
         /\ \A i \in 1..Len(a.items) : PyEq(a.items[i], b.items[i])
    ELSE IF a.py = "dict"
    THEN /\ Len(a.items) = Len(b.items)
         /\ \A i \in 1..Len(a.items) :
               /\ PyEq(a.items[i].k, b.items[i].k)
               /\ PyEq(a.items[i].val, b.items[i].val)
    ELSE a.v = b.v /\ a.items = b.items

\* str(value)
py_str(value) ==
    IF value.py = "str" THEN value
    ELSE [py |-> "str", v |-> "str()", items |-> <<value>>]

\* the str that json.dumps returns
JsonText(doc) == [py |-> "str", v |-> "json", items |-> <<doc>>]

\* json.loads(text): <<>> when text holds no JSON document written by dumps
LoadsText(text) ==
    IF text.py = "str" /\ text.v = "json"
    THEN <<json_loads_document(text.items[1])>> ELSE <<>>

\* lines 67-73
format_tool_response(tool_name, parameters) ==
    LET tool_call == PyDict(<<Item(PyStr("tool"), tool_name),
                              Item(PyStr("parameters"), parameters)>>)
        d == json_dumps(tool_call)
    IN  [raised |-> d.raised, text |-> JsonText(d.doc)]

\* lines 75-79, observed being the argument result
format_observation(observed) ==
    IF observed.py \in {"dict", "list"}
    THEN LET d == json_dumps(observed)
         IN  [raised |-> d.raised, text |-> JsonText(d.doc)]
    ELSE [raised |-> FALSE, text |-> py_str(observed)]

\* what the handlers of the registry return inside their dicts and lists:
\* strings, ints, floats (float(df['Value'].std()) is nan for a single
\* reading), None, and numpy scalars taken from a DataFrame
ObservationScalars ==
    {PyStr("stable"), PyScalar("int", "4"), PyScalar("float", "21.5"),
     PyScalar("nan", "nan"), PyScalar("none", "None"),
     PyScalar("object", "numpy.int64(400)")}

ObservationKeys == {PyStr("current"), PyStr("std"), PyScalar("int", "1")}

FlatLists ==
    {PyList(<<>>)} \cup {PyList(<<a>>) : a \in ObservationScalars}
    \cup {PyList(<<a, b>>) : a, b \in ObservationScalars}

FlatDicts ==
    {PyDict(<<>>)} \cup {PyDict(<<Item(k, a)>>) : k \in ObservationKeys, a \in ObservationScalars}
    \cup {PyDict(<<Item(PyStr("current"), a), Item(PyStr("std"), b)>>) :
             a, b \in ObservationScalars}

ObservationValues ==
    ObservationScalars \cup FlatLists \cup FlatDicts
    \cup {PyTuple(<<a>>) : a \in ObservationScalars}
    \cup {PyDict(<<Item(PyStr("co2"), d)>>) : d \in FlatDicts}
    \cup {PyDict(<<Item(PyStr("values"), l)>>) :
             l \in FlatLists \cup {PyTuple(<<a>>) : a \in ObservationScalars}}

ToolCallNames == {PyStr("get_sensor_data")}
ToolCallParameters ==
    {PyDict(<<>>)} \cup {PyDict(<<Item(PyStr("sensor_type"), a)>>) : a \in ObservationScalars}

NoFormat == [called |-> FALSE, method |-> "none", name |-> PyStr(""),
             value |-> PyScalar("none", "None"), raised |-> FALSE, text |-> PyStr("")]

\* parser.format_observation(value)
FormatObservation(value) ==
    /\ LET r == format_observation(value)
       IN  lastFormat' = [called |-> TRUE, method |-> "format_observation",
                          name |-> PyStr(""), value |-> value,
                          raised |-> r.raised, text |-> r.text]
    /\ UNCHANGED <<patterns, parseText, parseResults>>
    /\ UNCHANGED <<solveVars, memVars, recallVars, evictVars, cacheVars, hubVars>>

\* parser.format_observation(parser.format_tool_response(name, parameters))
FormatToolCall(name, parameters) ==
    /\ LET t == format_tool_response(name, parameters)
           r == IF t.raised THEN t ELSE format_observation(t.text)
       IN  lastFormat' = [called |-> TRUE, method |-> "format_tool_response",
                          name |-> name, value |-> parameters,
                          raised |-> r.raised, text |-> r.text]
    /\ UNCHANGED <<patterns, parseText, parseResults>>
    /\ UNCHANGED <<solveVars, memVars, recallVars, evictVars, cacheVars, hubVars>>

(***************************************************************************)
(* add_conversation and _move_to_long_term_memory, statement by statement, *)
(* run by manager instances of one user that share the archive directory   *)
(* (one instance per process or per cached agent).  The list operations    *)
(* touch the instance's own list; the file is read at lines 58-60 and      *)
(* rewritten at lines 68-69, and other instances may run in between.       *)
(***************************************************************************)
MaxEvictAdds == 12    \* add_conversation calls per instance

NoEviction == [oldest |-> <<>>, memories |-> <<>>]

\* the user message of the n-th add of instance m
EvMessage(m, n) == m \o "#" \o ToString(n)

\* the instances other than m that are between the pop of line 51 and the
\* write of lines 68-69 of an eviction into file key
EvictingInto(m, key) ==
    {o \in Instances \ {m} :
        /\ evPc[o] \in {"read", "write"}
        /\ ArchiveKey(user_id(o), evLocal[o].oldest[1]) = key}

\* the list that replaces the file's content when the read list is ignored
WrittenList_Overwrite(memories, oldest) == <<oldest>>

\* line 66: memories.append(oldest)
WrittenList(memories, oldest) == Append(memories, oldest)

\* lines 22-32: append to the instance's own list and test the threshold
EvAdd(m) ==
    /\ evPc[m] = "idle"
    /\ Len(added[m]) < MaxEvictAdds
    /\ LET conversation == [timestamp |-> isoformat(now),
                            user |-> EvMessage(m, Len(added[m]) + 1),
                            assistant |-> "hi there"]
           appended == Append(short_term_memory[m], conversation)
           over == Len(appended) > memory_threshold
       IN  /\ short_term_memory' = [short_term_memory EXCEPT ![m] = appended]
           /\ added' = [added EXCEPT ![m] = Append(@, conversation)]
           /\ evPc' = [evPc EXCEPT ![m] = IF over THEN "pop" ELSE "idle"]
           /\ addResult' = [addResult EXCEPT ![m] = IF over THEN "running" ELSE "returned"]
    /\ UNCHANGED <<now, archive, evicted, ioFailed, evLocal, evRaced>>
    /\ UNCHANGED <<solveVars, recallVars, parseVars, cacheVars, hubVars>>

\* lines 50-54: pop the oldest entry and name its file
EvPop(m) ==
    /\ evPc[m] = "pop"
    /\ IF short_term_memory[m] = <<>>
       THEN /\ evPc' = [evPc EXCEPT ![m] = "idle"]
            /\ addResult' = [addResult EXCEPT ![m] = "returned"]
            /\ UNCHANGED <<short_term_memory, evicted, evLocal, evRaced>>
       ELSE LET oldest == Head(short_term_memory[m])
                others == EvictingInto(m, ArchiveKey(user_id(m), oldest))
            IN  /\ short_term_memory' = [short_term_memory EXCEPT ![m] = Tail(@)]
                /\ evicted' = [evicted EXCEPT ![m] = Append(@, oldest)]
                /\ evLocal' = [evLocal EXCEPT ![m] = [oldest |-> <<oldest>>,
                                                      memories |-> <<>>]]
                /\ evRaced' = IF others = {} THEN evRaced
                              ELSE evRaced \cup {oldest}
                                           \cup {evLocal[o].oldest[1] : o \in others}
                /\ evPc' = [evPc EXCEPT ![m] = "read"]
                /\ UNCHANGED addResult
    /\ UNCHANGED <<now, archive, added, ioFailed>>
    /\ UNCHANGED <<solveVars, recallVars, parseVars, cacheVars, hubVars>>

\* lines 58-64: read the file's list, or start from an empty list
EvRead(m, io) ==
    /\ evPc[m] = "read"
    /\ LET file == archive[ArchiveKey(user_id(m), evLocal[m].oldest[1])]
       IN  IF file.exists /\ (~file.ok \/ io = "read_fails")
           THEN /\ evPc' = [evPc EXCEPT ![m] = "idle"]
                /\ addResult' = [addResult EXCEPT ![m] = "raised"]
                /\ ioFailed' = TRUE
                /\ UNCHANGED evLocal
           ELSE /\ evLocal' = [evLocal EXCEPT ![m].memories =
                                  IF file.exists THEN file.entries ELSE <<>>]
                /\ evPc' = [evPc EXCEPT ![m] = "write"]
                /\ UNCHANGED <<addResult, ioFailed>>
    /\ UNCHANGED <<now, short_term_memory, archive, added, evicted, evRaced>>
    /\ UNCHANGED <<solveVars, recallVars, parseVars, cacheVars, hubVars>>

\* lines 66-69: append to the list that was read and rewrite the file
EvWrite(m, io) ==
    /\ evPc[m] = "write"
    /\ LET key == ArchiveKey(user_id(m), evLocal[m].oldest[1])
       IN  /\ archive' =
                CASE io = "open_fails" -> archive
                  [] io = "dump_fails" -> [archive EXCEPT ![key] = CorruptFile]
                  [] OTHER -> [archive EXCEPT ![key] =
                                 JsonFile(WrittenList(evLocal[m].memories,
                                                      evLocal[m].oldest[1]))]
           /\ addResult' = [addResult EXCEPT ![m] = IF io = "ok" THEN "returned" ELSE "raised"]
           /\ ioFailed' = (ioFailed \/ io # "ok")
    /\ evPc' = [evPc EXCEPT ![m] = "idle"]
    /\ UNCHANGED <<now, short_term_memory, added, evicted, evLocal, evRaced>>
    /\ UNCHANGED <<solveVars, recallVars, parseVars, cacheVars, hubVars>>

(***************************************************************************)
(* views.py: chat_api and clear_memory over the module-level agent_cache.  *)
(* Each request runs in its own thread of the server; the statements of    *)
(* lines 60, 62-64 and 68 are separate steps.                              *)
(***************************************************************************)
MaxAgents == 3        \* ReActAgent instances constructed
MaxClears == 1        \* clear_memory calls

Requests == {"r1", "r2"}

NoRequest == [pc |-> "idle", user_id |-> "none", new |-> <<>>, agent |-> <<>>,
              epoch |-> 0, overlapped |-> FALSE, cleared |-> FALSE]

InFlight(r) == requests[r].pc \notin {"idle", "done", "error"}

\* a membership test that never finds the key
CacheHas_Never(cache, uid) == FALSE

\* user_id in agent_cache
CacheHas(cache, uid) == cache[uid] # <<>>

\* lines 54-58: the request arrives and its user id is read
ChatBegin(r, uid) ==
    /\ ~InFlight(r)
    /\ LET same == {o \in Requests \ {r} : InFlight(o) /\ requests[o].user_id = uid}
       IN  requests' = [o \in Requests |->
                          IF o = r
                          THEN [NoRequest EXCEPT !.pc = "check", !.user_id = uid,
                                                 !.epoch = clears,
                                                 !.overlapped = (same # {})]
                          ELSE IF o \in same
                          THEN [requests[o] EXCEPT !.overlapped = TRUE]
                          ELSE requests[o]]
    /\ UNCHANGED <<agent_cache, agentsCreated, clears>>
    /\ UNCHANGED <<solveVars, memVars, recallVars, parseVars, evictVars, hubVars>>

\* line 60: if user_id not in agent_cache
ChatCheck(r) ==
    /\ requests[r].pc = "check"
    /\ requests' = [requests EXCEPT ![r].pc =
                      IF CacheHas(agent_cache, requests[r].user_id)
                      THEN "lookup" ELSE "construct"]
    /\ UNCHANGED <<agent_cache, agentsCreated, clears>>
    /\ UNCHANGED <<solveVars, memVars, recallVars, parseVars, evictVars, hubVars>>

\* lines 62-64, right-hand side: ReActAgent(ModelHub(), ToolManager())
ChatConstruct(r) ==
    /\ requests[r].pc = "construct"
    /\ agentsCreated < MaxAgents
    /\ agentsCreated' = agentsCreated + 1
    /\ requests' = [requests EXCEPT ![r].pc = "store", ![r].new = <<agentsCreated + 1>>]
    /\ UNCHANGED <<agent_cache, clears>>
    /\ UNCHANGED <<solveVars, memVars, recallVars, parseVars, evictVars, hubVars>>

\* line 64: agent_cache[user_id] = the new instance
ChatStore(r) ==
    /\ requests[r].pc = "store"
    /\ agent_cache' = [agent_cache EXCEPT ![requests[r].user_id] = requests[r].new]
    /\ requests' = [requests EXCEPT ![r].pc = "lookup"]
    /\ UNCHANGED <<agentsCreated, clears>>
    /\ UNCHANGED <<solveVars, memVars, recallVars, parseVars, evictVars, hubVars>>

\* line 68: agent = agent_cache[user_id]; a KeyError ends in the except
\* branch of lines 89-94 (status 500)
ChatLookup(r) ==
    /\ requests[r].pc = "lookup"
    /\ requests' = [requests EXCEPT
                      ![r].pc = IF agent_cache[requests[r].user_id] # <<>>
                                THEN "process" ELSE "error",
                      ![r].agent = agent_cache[requests[r].user_id]]
    /\ UNCHANGED <<agent_cache, agentsCreated, clears>>
    /\ UNCHANGED <<solveVars, memVars, recallVars, parseVars, evictVars, hubVars>>

\* lines 71-87: the instance processes the message and the response is sent
ChatProcess(r) ==
    /\ requests[r].pc = "process"
    /\ requests' = [requests EXCEPT ![r].pc = "done"]
    /\ UNCHANGED <<agent_cache, agentsCreated, clears>>
    /\ UNCHANGED <<solveVars, memVars, recallVars, parseVars, evictVars, hubVars>>

\* clear_memory, lines 98-103: agent_cache.clear()
ClearMemory ==
    /\ clears < MaxClears
    /\ clears' = clears + 1
    /\ agent_cache' = [u \in Users |-> <<>>]
    /\ requests' = [o \in Requests |->
                      IF InFlight(o) THEN [requests[o] EXCEPT !.cleared = TRUE]
                      ELSE requests[o]]
    /\ UNCHANGED agentsCreated
    /\ UNCHANGED <<solveVars, memVars, recallVars, parseVars, evictVars, hubVars>>

(***************************************************************************)
(* ModelHub.complex_llm_call and lightweight_llm_call, statement by        *)
(* statement, for calls that share one ModelHub instance (one agent cached *)
(* per user serves every request of that user; requests run in threads).   *)
(* The test of line 23 / 41, the assignment of line 24 / 42, the provider  *)
(* call of line 26 / 44 and the reset of line 27, 31 / 45, 49 are separate *)
(* steps.                                                                  *)
(***************************************************************************)
Calls == {"c1", "c2"}
HubMethods == {"complex_llm_call", "lightweight_llm_call"}
HubPrompts == {"p1", "p2"}

NoCall == [pc |-> "idle", method |-> "none", prompt |-> "none",
           primaryCalls |-> 0, fallbackCalls |-> 0,
           primaryPrompt |-> <<>>, fallbackPrompt |-> <<>>,
           primaryOk |-> <<>>, fallbackOk |-> <<>>,
           sawFlag |-> <<>>, blockedBy |-> {}, alone |-> TRUE, text |-> <<>>]

Running(c) == calls[c].pc \notin {"idle", "returned", "raised"}

\* between the assignment of line 24 / 42 and the reset of its fallback
FallingBack(c) == calls[c].pc \in {"fallback", "reset_ok", "reset_fail"}

\* the prompt a method hands to the provider: line 20 / 26, and line 36
ProviderPrompt(method, p) ==
    IF method = "lightweight_llm_call"
    THEN <<p, "\n\nRemember to respond with ONLY valid JSON, no additional text.">>
    ELSE <<p>>

\* the model of the primary call of a method: lines 20 and 38
PrimaryModel(method) ==
    IF method = "lightweight_llm_call" THEN "lightweight_model" ELSE "complex_model"

\* response.choices[0].message.content of a call that succeeded
Completion(model) == <<"completion by ", model>>

\* a provider call returns or raises
HubOutcomes == {"ok", "error"}

\* the guard with the flag test inverted
GuardPasses_Inverted(fbm, flag) == fbm /\ flag

\* line 23 / 41: self.fallback_model and not self.use_fallback
GuardPasses(fbm, flag) == fbm /\ ~flag

\* a fallback that leaves the flag set
FlagAfterFallback_Kept == TRUE

\* lines 27, 31 / 45, 49: self.use_fallback = False
FlagAfterFallback == FALSE

\* the method is entered with a prompt
HubBegin(c, method, p) ==
    /\ ~Running(c)
    /\ LET others == {o \in Calls \ {c} : Running(o)}
       IN  calls' = [o \in Calls |->
                       IF o = c
                       THEN [NoCall EXCEPT !.pc = "primary", !.method = method,
                                           !.prompt = p, !.alone = (others = {})]
                       ELSE IF o \in others
                       THEN [calls[o] EXCEPT !.alone = FALSE]
                       ELSE calls[o]]
    /\ UNCHANGED use_fallback
    /\ UNCHANGED <<loopVars, memVars, recallVars, parseVars, evictVars, cacheVars>>

\* line 20 / 38: the call of the primary model
HubPrimary(c, outcome) ==
    /\ calls[c].pc = "primary"
    /\ calls' = [calls EXCEPT
                   ![c].primaryCalls = @ + 1,
                   ![c].primaryPrompt = <<ProviderPrompt(calls[c].method, calls[c].prompt)>>,
                   ![c].primaryOk = <<outcome = "ok">>,
                   ![c].text = IF outcome = "ok"
                               THEN <<Completion(PrimaryModel(calls[c].method))>> ELSE <<>>,
                   ![c].pc = IF outcome = "ok" THEN "returned" ELSE "guard"]
    /\ UNCHANGED use_fallback
    /\ UNCHANGED <<loopVars, memVars, recallVars, parseVars, evictVars, cacheVars>>

\* line 23 / 41: the guard is read; when it fails line 32 / 50 re-raises
HubGuard(c) ==
    /\ calls[c].pc = "guard"
    /\ calls' = [calls EXCEPT
                   ![c].sawFlag = <<use_fallback>>,
                   ![c].blockedBy = IF use_fallback
                                    THEN {o \in Calls : FallingBack(o)} ELSE {},
                   ![c].pc = IF GuardPasses(fallback_model, use_fallback)
                             THEN "set" ELSE "raised"]
    /\ UNCHANGED use_fallback
    /\ UNCHANGED <<loopVars, memVars, recallVars, parseVars, evictVars, cacheVars>>

\* line 24 / 42: self.use_fallback = True
HubSet(c) ==
    /\ calls[c].pc = "set"
    /\ use_fallback' = TRUE
    /\ calls' = [calls EXCEPT ![c].pc = "fallback"]
    /\ UNCHANGED <<loopVars, memVars, recallVars, parseVars, evictVars, cacheVars>>

\* line 26 / 44: the call of the fallback model
HubFallback(c, outcome) ==
    /\ calls[c].pc = "fallback"
    /\ calls' = [calls EXCEPT
                   ![c].fallbackCalls = @ + 1,
                   ![c].fallbackPrompt = <<ProviderPrompt(calls[c].method, calls[c].prompt)>>,
                   ![c].fallbackOk = <<outcome = "ok">>,
                   ![c].text = IF outcome = "ok"
                               THEN <<Completion("fallback_model")>> ELSE <<>>,
                   ![c].pc = IF outcome = "ok" THEN "reset_ok" ELSE "reset_fail"]
    /\ UNCHANGED use_fallback
    /\ UNCHANGED <<loopVars, memVars, recallVars, parseVars, evictVars, cacheVars>>

\* a reset that is skipped when the fallback model failed
HubReset_FailureKeepsFlag(c) ==
    /\ calls[c].pc \in {"reset_ok", "reset_fail"}
    /\ use_fallback' = IF calls[c].pc = "reset_ok" THEN FlagAfterFallback ELSE use_fallback
    /\ calls' = [calls EXCEPT ![c].pc = IF calls[c].pc = "reset_ok"
                                        THEN "returned" ELSE "raised"]
    /\ UNCHANGED <<loopVars, memVars, recallVars, parseVars, evictVars, cacheVars>>

\* lines 27-28 / 45-46: reset and return; lines 31-32 / 49-50: reset and
\* re-raise the primary model's error
HubReset(c) ==
    /\ calls[c].pc \in {"reset_ok", "reset_fail"}
    /\ use_fallback' = FlagAfterFallback
    /\ calls' = [calls EXCEPT ![c].pc = IF calls[c].pc = "reset_ok"
                                        THEN "returned" ELSE "raised"]
    /\ UNCHANGED <<loopVars, memVars, recallVars, parseVars, evictVars, cacheVars>>

(***************************************************************************)
(* Specifications                                                          *)
(***************************************************************************)
Init ==
    /\ pc = "idle"
    /\ user_input = ""
    /\ iteration = 0
    /\ conversation_history = <<>>
    /\ final_answer = <<>>
    /\ prompt = <<>>
    /\ result = <<>>
    /\ max_iterations = MaxIterationsDefault
    /\ fallback_model \in BOOLEAN
    /\ use_fallback = FALSE
    /\ tools = RegisteredTools
    /\ lastExec = NoExec
    /\ lastReg = [n \in RegisterNames |-> <<>>]
    /\ llmCalls = 0
    /\ events = <<>>
    /\ earlierCalls = FALSE
    /\ now = 0
    /\ short_term_memory = [m \in Instances |-> <<>>]
    /\ archive = [k \in Users \X Days |-> NoFile]
    /\ addResult = [m \in Instances |-> "none"]
    /\ added = [m \in Instances |-> <<>>]
    /\ evicted = [m \in Instances |-> <<>>]
    /\ ioFailed = FALSE
    /\ lastRecall = NoRecall
    /\ patterns = InitialPatterns
    /\ parseText = <<>>
    /\ parseResults = <<>>
    /\ lastFormat = NoFormat
    /\ evPc = [m \in Instances |-> "idle"]
    /\ evLocal = [m \in Instances |-> NoEviction]
    /\ evRaced = {}
    /\ agent_cache = [u \in Users |-> <<>>]
    /\ requests = [r \in Requests |-> NoRequest]
    /\ agentsCreated = 0
    /\ clears = 0
    /\ calls = [c \in Calls |-> NoCall]

SolveNext ==
    \/ \E ui \in UserInputs : SolveBegin(ui)
    \/ SolveIterate
    \/ SolveReturn

MemNext ==
    \/ \E m \in Managers : AddConversation(m)
    \/ Tick

RecallNext ==
    \/ \E m \in Managers : AddConversation(m)
    \/ \E m \in Managers, date \in RecallDates, io \in RecallIoOutcomes :
          RecallMemory(m, date, io)
    \/ \E k \in {user_id(m) : m \in Managers} \X Days : EmptyListFile(k)

SharedArchiveNext ==
    \/ \E m \in Instances : InstanceAdd(m, "ok")
    \/ \E m \in Instances, d \in Days :
          RecallMemory(m, RecallDate(IntArg(2024), IntArg(1), IntArg(d + 1)), "ok")

ParseNext ==
    \/ \E text \in (IF parseText = <<>> THEN ParseTexts ELSE {}) : Parse(text)
    \/ ParseAgain

FormatNext ==
    \/ \E value \in ObservationValues : FormatObservation(value)
    \/ \E name \in ToolCallNames, parameters \in ToolCallParameters :
          FormatToolCall(name, parameters)

EvictNext ==
    \/ \E m \in Instances : EvAdd(m)
    \/ \E m \in Instances : EvPop(m)
    \/ \E m \in Instances, io \in {"ok", "read_fails"} : EvRead(m, io)
    \/ \E m \in Instances, io \in {"ok", "open_fails", "dump_fails"} : EvWrite(m, io)

CacheNext ==
    \/ \E r \in Requests, uid \in Users : ChatBegin(r, uid)
    \/ \E r \in Requests : ChatCheck(r)
    \/ \E r \in Requests : ChatConstruct(r)
    \/ \E r \in Requests : ChatStore(r)
    \/ \E r \in Requests : ChatLookup(r)
    \/ \E r \in Requests : ChatProcess(r)
    \/ ClearMemory

HubNext ==
    \/ \E c \in Calls, method \in HubMethods, p \in HubPrompts : HubBegin(c, method, p)
    \/ \E c \in Calls, outcome \in HubOutcomes : HubPrimary(c, outcome)
    \/ \E c \in Calls : HubGuard(c)
    \/ \E c \in Calls : HubSet(c)
    \/ \E c \in Calls, outcome \in HubOutcomes : HubFallback(c, outcome)
    \/ \E c \in Calls : HubReset(c)

ToolNext ==
    \/ \E name \in RegisterNames, func \in RegisterFuncs,
          description \in RegisterDescriptions : RegisterTool(name, func, description)
    \/ \E name \in ExecuteNames, parameters \in ParameterValues,
          outcome \in HandlerOutcomes : ExecuteTool(name, parameters, outcome)

\* the registry is filled before the agent serves its first solve call
\* (ToolManager.__init__ and the registrations that follow it), then a
\* solve call runs
RegistryNext ==
    \/ /\ pc = "idle"
       /\ \E name \in RegisterNames : RegisterTool(name, "h1", "d2")
    \/ /\ pc = "idle"
       /\ \E ui \in UserInputs : SolveBegin(ui)
    \/ SolveIterate
    \/ SolveReturn

SolveSpec == Init /\ [][SolveNext]_vars
ToolSpec == Init /\ [][ToolNext]_vars
RegistrySpec == Init /\ [][RegistryNext]_vars
MemSpec == Init /\ [][MemNext]_vars
RecallSpec == Init /\ [][RecallNext]_vars
SharedArchiveSpec == Init /\ [][SharedArchiveNext]_vars
ParseSpec == Init /\ [][ParseNext]_vars
FormatSpec == Init /\ [][FormatNext]_vars
EvictSpec == Init /\ [][EvictNext]_vars
CacheSpec == Init /\ [][CacheNext]_vars
HubSpec == Init /\ [][HubNext]_vars

(***************************************************************************)
(* Properties                                                              *)
(***************************************************************************)
Contains(s, tok) == \E i \in 1..Len(s) : s[i] = tok
IsPrefix(p, s) == Len(p) <= Len(s) /\ SubSeq(s, 1, Len(p)) = p
LastEventIs(kind) == events # <<>> /\ events[Len(events)].kind = kind
EventKinds == {events[i].kind : i \in 1..Len(events)}

\* C1: a solve call issues at most max_iterations (5) complex_llm_call calls,
\* whatever the completions parse to and whatever the tools do.
C1_CompletionCallsBounded ==
    /\ max_iterations = MaxIterationsDefault
    /\ llmCalls = Len(events)
    /\ llmCalls <= max_iterations

\* a call that used the whole budget on a mix of Thought, Action (with a
\* failing tool) and an empty Final Answer
C1_Witness ==
    /\ pc = "returned"
    /\ llmCalls = max_iterations
    /\ {"thought", "action", "final_answer"} \subseteq EventKinds
    /\ \E i \in 1..Len(events) : events[i].toolRaised

\* C2: solve never raises to its caller, also when the primary and the
\* fallback model both fail.
C2_SolveNeverRaises == pc # "raised"

\* C3: an iteration whose completion parsed as FinalAnswer is the last one of
\* the call, and the call returns that FinalAnswer's content.
C3_FinalAnswerEndsLoop ==
    \A i \in 1..Len(events) :
        events[i].kind = "final_answer" =>
            /\ i = Len(events)
            /\ pc = "returned" => result[1].final_answer = events[i].content

\* C4: after a ParseFailure no further completion call is issued, no tool is
\* dispatched, the history and the iteration count stay as they were before
\* that completion, and the call returns the fixed apology.
C4_ParseFailureAborts ==
    \A i \in 1..Len(events) :
        events[i].kind = "parse_failure" =>
            /\ i = Len(events)
            /\ llmCalls = i
            /\ events[i].handler = "none"
            /\ Len(conversation_history) = events[i].histBefore
            /\ iteration = events[i].iterBefore
            /\ pc \in {"after", "returned"}
            /\ pc = "returned" =>
                 /\ result[1].final_answer = APOLOGY
                 /\ result[1].conversation_history = conversation_history
                 /\ result[1].iterations = events[i].iterBefore

\* a call that returned after a ParseFailure in its third or later iteration
C4_Witness ==
    /\ pc = "returned"
    /\ LastEventIs("parse_failure")
    /\ Len(events) >= 3
    /\ "action" \in EventKinds

\* C5: when max_iterations completions all parsed as Thought or Action, the
\* loop stops without raising and the call returns the apology with
\* iterations = max_iterations.
C5_BudgetExhausted ==
    (Len(events) = max_iterations /\ EventKinds \subseteq {"thought", "action"}) =>
        /\ pc \in {"loop", "returned"}
        /\ ~LoopCondition
        /\ llmCalls = max_iterations
        /\ pc = "returned" =>
             /\ result[1].final_answer = APOLOGY
             /\ result[1].iterations = max_iterations

C5_Witness ==
    /\ pc = "returned"
    /\ Len(events) = max_iterations
    /\ EventKinds = {"thought", "action"}

\* C6: a failed tool dispatch (unregistered name, handler raised, parameters
\* that ** cannot expand) does not abort the loop: one system entry
\* "Observation: Error executing tool: <error>" is appended (with "Unknown
\* tool" for an unregistered name), the iteration is incremented and the loop
\* goes on while budget remains.
C6_ToolFailureBecomesObservation ==
    \A i \in 1..Len(events) :
        (events[i].kind = "action" /\ events[i].toolRaised) =>
            /\ Len(conversation_history) > events[i].histBefore
            /\ LET h == conversation_history[events[i].histBefore + 1]
               IN  /\ h.role = "system"
                   /\ h.content = <<OBS, "Error executing tool: ">> \o events[i].toolText
                   /\ ~HasTool(tools, events[i].tool) => Contains(h.content, "Unknown tool: ")
            /\ iteration > events[i].iterBefore
            /\ i = Len(events) =>
                 /\ iteration = events[i].iterBefore + 1
                 /\ pc \in {"loop", "returned"}
                 /\ (pc = "loop" /\ iteration < max_iterations) => LoopCondition

\* one call in which each of the three kinds of failure happened and the loop
\* went on to a further completion
C6_Witness ==
    /\ \E i \in 1..Len(events) : events[i].toolRaised /\ events[i].tool = "fly_drone"
    /\ \E i \in 1..Len(events) : events[i].toolRaised /\ events[i].parameters = "notmapping"
    /\ \E i \in 1..Len(events) : events[i].toolRaised /\ events[i].handler # "none"
    /\ LastEventIs("thought")

\* C7: execute_tool with a name that is not in the registry raises the
\* unknown-tool error, runs no handler and leaves the registry as it was,
\* whatever the parameters.
C7_UnknownToolFails ==
    (lastExec.called /\ ~HasTool(lastExec.toolsBefore, lastExec.name)) =>
        /\ lastExec.raised
        /\ lastExec.text = <<"Unknown tool: ", lastExec.name>>
        /\ lastExec.handler = "none"
        /\ lastExec.toolsAfter = lastExec.toolsBefore

\* an unregistered name executed with parameters that are no mapping, after
\* a registration changed the registry
C7_Witness ==
    /\ lastExec.called
    /\ ~HasTool(lastExec.toolsBefore, lastExec.name)
    /\ lastExec.parameters = "notmapping"
    /\ lastExec.toolsBefore # RegisteredTools

\* the entries of sequence s whose timestamp is on day d, in the order of s
RECURSIVE OfDay(_, _)
OfDay(s, d) ==
    IF s = <<>> THEN <<>>
    ELSE (IF Head(s).timestamp.date = d THEN <<Head(s)>> ELSE <<>>) \o OfDay(Tail(s), d)

Occurrences(s, e) == Cardinality({i \in 1..Len(s) : s[i] = e})
Smaller(a, b) == IF a < b THEN a ELSE b
Larger(a, b) == IF a > b THEN a ELSE b

\* C8: after N add_conversation calls on a manager that started empty the
\* short-term list holds min(N, T) entries, the N - T oldest entries have
\* been evicted in insertion order, one per add beyond the threshold, and,
\* while no archive read or write has failed, the archive of the user holds
\* exactly the evicted entries (one entry for T = 10 and N = 11).
C8_ShortTermBounded ==
    \A m \in Managers :
        LET N == Len(added[m])
            T == memory_threshold
            E == Larger(N - T, 0)
        IN  /\ Len(short_term_memory[m]) = Smaller(N, T)
            /\ Len(evicted[m]) = E
            /\ evicted[m] = SubSeq(added[m], 1, E)
            /\ short_term_memory[m] = SubSeq(added[m], E + 1, N)
            /\ ~ioFailed =>
                 \A d \in Days :
                     archive[<<user_id(m), d>>].entries = OfDay(evicted[m], d)

\* eleven adds with threshold ten: ten entries in the short-term list and
\* one entry in the archive file of the oldest entry's day
C8_Witness ==
    \E m \in Managers :
        /\ memory_threshold = 10
        /\ Len(added[m]) = 11
        /\ Len(short_term_memory[m]) = 10
        /\ ~ioFailed
        /\ archive[<<user_id(m), added[m][1].timestamp.date>>].entries = <<added[m][1]>>

\* C9: every entry ever added is in exactly one place, the short-term list
\* or the archive file of its own day, and in no other file, also after an
\* eviction whose archive read or write failed.
C9_NoEntryLost ==
    \A m \in Managers : \A i \in 1..Len(added[m]) :
        LET e == added[m][i]
        IN  /\ Occurrences(short_term_memory[m], e)
               + Occurrences(archive[<<user_id(m), e.timestamp.date>>].entries, e) = 1
            /\ \A k \in DOMAIN archive :
                   k # <<user_id(m), e.timestamp.date>> =>
                       Occurrences(archive[k].entries, e) = 0

\* C10: an eviction that completes rewrites the file of (user, day of the
\* evicted entry's own timestamp) to its previous list followed by the
\* evicted entry, and no eviction changes any other file.
C10_EvictionAppendsToOwnDay ==
    [][\A m \in Managers :
          Len(evicted'[m]) = Len(evicted[m]) + 1 =>
              LET e == evicted'[m][Len(evicted'[m])]
                  k == <<user_id(m), e.timestamp.date>>
                  previous == IF archive[k].exists THEN archive[k].entries ELSE <<>>
              IN  /\ \A k2 \in DOMAIN archive : k2 # k => archive'[k2] = archive[k2]
                  /\ addResult'[m] = "returned" =>
                       archive'[k] = JsonFile(previous \o <<e>>)]_vars

\* two completed evictions into the file of day 0, the second one appending
\* to the first, both run on a later day
C10_Witness ==
    \E m \in Managers :
        /\ Len(evicted[m]) = 2
        /\ ~ioFailed
        /\ archive[<<user_id(m), 0>>].entries = evicted[m]
        /\ strftime_date(now) > 0

\* C11: recall_memory never raises to its caller, whatever the three date
\* components are (ints in or out of range, values that are no int) and
\* whatever happens to the read of the archive file.
C11_RecallNeverRaises == lastRecall.called => ~lastRecall.raised

\* C12: add_conversation never raises to its caller, also when the archive
\* read or the archive write of its eviction fails.
C12_AddNeverRaises == \A m \in Managers : addResult[m] # "raised"

\* the file that a recall of the date reads, in archive arch
RecalledFile(arch, uid, date) ==
    LET d == DayOfDateStr(<<date.year.val, date.month.val, date.day.val>>)
    IN  IF d = <<>> THEN NoFile ELSE arch[<<uid, d[1]>>]

\* C13: a recall_memory call for a day of a user with zero archived entries
\* (no file, or a file that is read as an empty list) returns one of the two
\* "not found" texts with the date, does not raise, and leaves the
\* short-term lists and every archive file as they were.
C13_ZeroEntriesNotFound ==
    [][(/\ lastRecall' # lastRecall
        /\ lastRecall'.year.int /\ lastRecall'.month.int /\ lastRecall'.day.int
        /\ LET file == RecalledFile(archive, user_id(lastRecall'.manager), lastRecall')
           IN  \/ ~file.exists
               \/ file.ok /\ file.entries = <<>> /\ lastRecall'.io = "ok")
       => /\ ~lastRecall'.raised
          /\ lastRecall'.kind \in {"no_file", "no_memories"}
          /\ lastRecall'.message \in {<<"No memory file found for the date: ">>,
                                      <<"No memories found for ">>}
          /\ lastRecall'.date_str = <<lastRecall'.year.val, lastRecall'.month.val,
                                      lastRecall'.day.val>>
          /\ lastRecall'.lines = <<>>
          /\ short_term_memory' = short_term_memory
          /\ archive' = archive]_vars

\* a recall of a day whose file holds an empty list, by a manager that has
\* entries in its short-term list and in the file of another day
C13_Witness ==
    /\ lastRecall.called
    /\ lastRecall.kind = "no_memories"
    /\ RecalledFile(archive, user_id(lastRecall.manager), lastRecall) = JsonFile(<<>>)
    /\ Len(short_term_memory[lastRecall.manager]) = memory_threshold
    /\ \E d \in Days : archive[<<user_id(lastRecall.manager), d>>].entries # <<>>

\* C14: a text that contains both a "Final Answer: " block and an
\* "Action: " block, in either order and whatever the Action payload is,
\* parses to the FinalAnswer variant.
C14_FinalAnswerPriority ==
    \A i \in 1..Len(parseResults) :
        (Contains(parseText[1], FA) /\ Contains(parseText[1], AC)) =>
            parseResults[i].type = "final_answer"

\* the Action block of a completion text as the action pattern finds it
ActionBlock(raw) == ReSearch(AC, raw)

\* a text with an Action block whose payload does not decode to a JSON object
UndecodableAction(raw) ==
    /\ ActionBlock(raw) # <<>>
    /\ json_loads(Strip(ActionBlock(raw)[1])).kind # "object"

\* C15: a text with an "Action: " block whose payload does not decode as a
\* JSON object parses to ParseFailure (never to Thought), also when a
\* "Thought: " line precedes the block.
C15_UndecodableActionFails ==
    \A i \in 1..Len(parseResults) :
        UndecodableAction(parseText[1]) => parseResults[i].type = "none"

\* C16: every parse call returns exactly one of the four results, with only
\* the fields of that variant populated; a text in which none of the three
\* labels occurs gives ParseFailure; the parser's attributes are never
\* changed and every parse of the same text returns the same result.
C16_ParseTotalAndPure ==
    /\ patterns = InitialPatterns
    /\ parseText = <<>> => parseResults = <<>>
    /\ \A i \in 1..Len(parseResults) :
         LET r == parseResults[i]
         IN  /\ r.type \in {"thought", "action", "final_answer", "none"}
             /\ r.type = "none" => r = ParseNone
             /\ r.type = "thought" =>
                  /\ r.content # <<>>
                  /\ r.thought = <<>> /\ r.tool = "None" /\ r.parameters = "kwargs"
             /\ r.type = "final_answer" =>
                  r.thought = <<>> /\ r.tool = "None" /\ r.parameters = "kwargs"
             /\ r.type = "action" => r.content = <<>>
             /\ (\A l \in Labels : ~Contains(parseText[1], l)) => r.type = "none"
             /\ r = parseResults[1]
             /\ r = parse(parseText[1])

\* a text of words and a JSON payload but no label, parsed twice
C16_Witness ==
    /\ Len(parseResults) = MaxParses
    /\ MaxParses >= 2
    /\ Len(parseText[1]) >= 3
    /\ parseText[1][1] = "word"
    /\ Contains(parseText[1], jKnown)
    /\ \A l \in Labels : ~Contains(parseText[1], l)
    /\ parseResults[MaxParses] = ParseNone

\* the eviction of the i-th entry popped by instance m has ended
EvictionEnded(m, i) == i < Len(evicted[m]) \/ evPc[m] = "idle"

\* C17: evictions by two instances of one user into the file of one day lose
\* no entry when they run one after the other: while no archive read or
\* write has failed, every entry whose eviction has ended and did not run
\* while another eviction into the same file did is in that file, once.
\* (Evictions that do overlap can lose one of the two entries: C17_Witness.)
C17_SequentialEvictionsKeepBoth ==
    ~ioFailed =>
        \A m \in Instances : \A i \in 1..Len(evicted[m]) :
            LET e == evicted[m][i]
            IN  (EvictionEnded(m, i) /\ e \notin evRaced) =>
                    Occurrences(archive[ArchiveKey(user_id(m), e)].entries, e) = 1

\* a lost update: both instances have evicted their first entry into the
\* file of the same day, both calls returned, and the file holds only the
\* entry of one of them
C17_Witness ==
    /\ ~ioFailed
    /\ \A m \in Instances : Len(evicted[m]) = 1 /\ evPc[m] = "idle"
                            /\ addResult[m] = "returned"
    /\ LET e1 == evicted["m1"][1]
           e2 == evicted["m2"][1]
       IN  /\ e1 # e2
           /\ ArchiveKey(user_id("m1"), e1) = ArchiveKey(user_id("m2"), e2)
           /\ archive[ArchiveKey(user_id("m1"), e1)] \in {JsonFile(<<e1>>), JsonFile(<<e2>>)}

\* a chat_api call that has its agent and ran with no other call for the
\* same user in flight and with no clear_memory during it
ServedAlone(r) ==
    /\ requests[r].pc \in {"process", "done"}
    /\ ~requests[r].overlapped
    /\ ~requests[r].cleared

\* C18: chat_api calls for one user that run one after the other are served
\* by one and the same cached instance as long as clear_memory has not run
\* between them; after clear_memory has emptied the cache the next call
\* gets a new instance.  (Two concurrent first calls can be served by two
\* instances: C18_Witness.)
C18_SequentialRequestsReuse ==
    \A r1, r2 \in Requests :
        (/\ ServedAlone(r1) /\ ServedAlone(r2)
         /\ requests[r1].user_id = requests[r2].user_id) =>
            /\ requests[r1].epoch = requests[r2].epoch =>
                 requests[r1].agent = requests[r2].agent
            /\ requests[r1].epoch # requests[r2].epoch =>
                 requests[r1].agent # requests[r2].agent
            /\ requests[r1].epoch = clears =>
                 agent_cache[requests[r1].user_id] = requests[r1].agent

\* two concurrent first requests of one user: both found the key absent,
\* both constructed an instance, each was served by its own instance, and
\* the cache holds only the one stored last
C18_Witness ==
    /\ clears = 0
    /\ requests["r1"].pc = "done" /\ requests["r2"].pc = "done"
    /\ requests["r1"].user_id = requests["r2"].user_id
    /\ requests["r1"].new # <<>> /\ requests["r2"].new # <<>>
    /\ requests["r1"].agent = requests["r1"].new
    /\ requests["r2"].agent = requests["r2"].new
    /\ requests["r1"].agent # requests["r2"].agent
    /\ agent_cache[requests["r1"].user_id] = requests["r2"].agent

\* C19: a complex_llm_call on a ModelHub with a fallback model, with no
\* other call in flight during it: the primary model is called once; when
\* that call succeeds its text is returned and the fallback model is not
\* called; when it fails the fallback model is called exactly once, with the
\* same prompt, its text is returned when it succeeds and the call raises
\* when it fails; the fallback is never called a second time.
C19_SingleFallback ==
    \A c \in Calls :
        (calls[c].method = "complex_llm_call" /\ calls[c].alone /\ fallback_model) =>
            /\ calls[c].primaryCalls <= 1
            /\ calls[c].fallbackCalls <= 1
            /\ calls[c].primaryOk = <<TRUE>> =>
                 /\ calls[c].pc = "returned"
                 /\ calls[c].fallbackCalls = 0
                 /\ calls[c].text = <<Completion("complex_model")>>
            /\ (calls[c].primaryOk = <<FALSE>> /\ ~Running(c)) =>
                 /\ calls[c].primaryCalls = 1
                 /\ calls[c].fallbackCalls = 1
                 /\ calls[c].fallbackPrompt = calls[c].primaryPrompt
                 /\ calls[c].fallbackPrompt = <<<<calls[c].prompt>>>>
                 /\ calls[c].fallbackOk = <<TRUE>> =>
                      /\ calls[c].pc = "returned"
                      /\ calls[c].text = <<Completion("fallback_model")>>
                 /\ calls[c].fallbackOk = <<FALSE>> => calls[c].pc = "raised"

\* a call that ran alone, after an earlier call on the same ModelHub, whose
\* primary and fallback calls both failed
C19_Witness ==
    /\ fallback_model
    /\ calls["c1"].pc = "returned" /\ calls["c1"].fallbackCalls = 1
    /\ calls["c2"].method = "complex_llm_call"
    /\ calls["c2"].alone
    /\ calls["c2"].pc = "raised"
    /\ calls["c2"].primaryOk = <<FALSE>>
    /\ calls["c2"].fallbackOk = <<FALSE>>
    /\ calls["c2"].fallbackCalls = 1

\* C20: a call whose primary model failed and that found the flag
\* use_fallback set found it set by another call of the shared ModelHub
\* whose fallback was in flight at that moment; it raises without a fallback
\* call of its own.
C20_BlockedByOtherFallback ==
    \A c \in Calls :
        calls[c].sawFlag = <<TRUE>> =>
            /\ calls[c].primaryOk = <<FALSE>>
            /\ calls[c].pc = "raised"
            /\ calls[c].fallbackCalls = 0
            /\ ~calls[c].alone
            /\ calls[c].blockedBy # {}
            /\ c \notin calls[c].blockedBy

\* both primary calls failed; c2 found the flag set by c1, whose fallback
\* call is still in flight, and has raised without a fallback call
C20_Witness ==
    /\ fallback_model
    /\ calls["c1"].primaryOk = <<FALSE>>
    /\ calls["c1"].pc = "fallback"
    /\ calls["c2"].primaryOk = <<FALSE>>
    /\ calls["c2"].sawFlag = <<TRUE>>
    /\ calls["c2"].blockedBy = {"c1"}
    /\ calls["c2"].pc = "raised"
    /\ calls["c2"].fallbackCalls = 0
\* C21: get_tools_description renders one "name: description" line per
\* registered tool, joined by newlines, in the order in which the names were
\* first registered (the eight tools of _register_tools first); the text is the
\* same in every prompt of the solve calls that follow the registrations, and
\* no step of solve, its tool dispatch included, changes the registry (so the
\* rendering is examined on the steps that start in the registration phase).
DescribesRegistry(reg) ==
    LET d == get_tools_description(reg)
    IN  /\ Len(d) = (IF reg = <<>> THEN 0 ELSE 4 * Len(reg) - 1)
        /\ \A i \in 1..Len(reg) :
              /\ d[4 * i - 3] = reg[i].name
              /\ d[4 * i - 2] = ": "
              /\ d[4 * i - 1] = reg[i].description
              /\ i < Len(reg) => d[4 * i] = NL
        /\ \A i, j \in 1..Len(reg) : reg[i].name = reg[j].name => i = j

C21_DescribeAllInOrder ==
    [][ /\ pc = "idle" =>
              /\ DescribesRegistry(tools) /\ DescribesRegistry(tools')
              /\ \A i \in 1..Len(StartupNames) : tools[i].name = StartupNames[i]
        /\ Len(tools') >= Len(tools)
        /\ \A i \in 1..Len(tools) : tools'[i].name = tools[i].name
        /\ prompt' # <<>> =>
              prompt'[1].tools_description = get_tools_description(tools')
        /\ (prompt # <<>> /\ prompt' # <<>>) =>
              prompt'[1].tools_description = prompt[1].tools_description
        /\ (pc # "idle" \/ pc' # "idle") =>
              /\ tools' = tools
              /\ get_tools_description(tools') = get_tools_description(tools)
      ]_vars

\* a solve call on a registry in which get_sensor_data was registered again
\* and calculator was added: it rendered two prompts and ran the new handler
C21_Witness ==
    /\ pc = "returned"
    /\ llmCalls >= 2
    /\ Len(tools) = Len(StartupNames) + 1
    /\ tools[Len(tools)].name = "calculator"
    /\ tools[1].func = "h1"
    /\ \E i \in 1..Len(events) : events[i].handler = "h1"
    /\ prompt[1].tools_description = get_tools_description(tools)

\* the lines of the description text that start with name n
LinesOf(reg, n) ==
    LET d == get_tools_description(reg)
    IN  {k \in 1..Len(d) : d[k] = n /\ (k = 1 \/ d[k - 1] = NL)}

\* C22: the latest register_tool call of a name wins: the registry holds one
\* entry for the name and it carries the handler and the description of that
\* call, execute_tool of the name runs that handler and no earlier one, the
\* description text has one line for the name with the latest description,
\* and every other name keeps the entry it had.
C22_LastWriteWins ==
    /\ \A i \in 1..Len(tools) :
          IF tools[i].name \in RegisterNames /\ lastReg[tools[i].name] # <<>>
          THEN /\ tools[i].func = lastReg[tools[i].name][1].func
               /\ tools[i].description = lastReg[tools[i].name][1].description
          ELSE /\ i <= Len(RegisteredTools)
               /\ tools[i] = RegisteredTools[i]
    /\ \A n \in RegisterNames :
          lastReg[n] # <<>> =>
            /\ Cardinality({i \in 1..Len(tools) : tools[i].name = n}) = 1
            /\ Cardinality(LinesOf(tools, n)) = 1
            /\ \A k \in LinesOf(tools, n) :
                  get_tools_description(tools)[k + 2] = lastReg[n][1].description
            /\ \A outcome \in HandlerOutcomes :
                  execute_tool(tools, n, "kwargs", outcome).handler = lastReg[n][1].func
            /\ (lastExec.called /\ lastExec.name = n /\ lastExec.toolsBefore = tools
                   /\ lastExec.parameters = "kwargs") =>
                  lastExec.handler = lastReg[n][1].func

\* get_sensor_data, registered at startup, was registered again with h2 and d2
\* and executed afterwards; calculator was registered as well
C22_Witness ==
    /\ lastExec.called /\ lastExec.name = "get_sensor_data" /\ lastExec.handler = "h2"
    /\ lastExec.toolsBefore = tools
    /\ lastReg["get_sensor_data"] = <<[func |-> "h2", description |-> "d2"]>>
    /\ lastReg["calculator"] # <<>>

\* the first completion of the call parsed as an Action that names a
\* registered tool and the second one as a FinalAnswer
ActionThenFinalAnswer ==
    /\ Len(events) >= 2
    /\ events[1].kind = "action"
    /\ HasTool(tools, events[1].tool)
    /\ events[2].kind = "final_answer"

\* C23: when the first completion parses as an Action naming a registered
\* tool and the second as a FinalAnswer, solve issues exactly two completion
\* calls, the tool's handler runs once between them with the parsed
\* parameters, the Observation entry with the tool's result is in the history
\* rendered into the second prompt, and solve returns the FinalAnswer's
\* content with iterations = 2.
C23_ActionThenAnswer ==
    ActionThenFinalAnswer =>
        /\ Len(events) = 2
        /\ llmCalls = 2
        /\ events[1].handler = tools[ToolIndex(tools, events[1].tool)].func
        /\ events[2].handler = "none"
        /\ Len(conversation_history) = 2
        /\ conversation_history[1].role = "system"
        /\ IsPrefix(<<OBS>>, conversation_history[1].content)
        /\ IsPrefix(events[1].toolText,
                    SubSeq(conversation_history[1].content,
                           Len(conversation_history[1].content) - Len(events[1].toolText) + 1,
                           Len(conversation_history[1].content)))
        /\ prompt[1].chat_history = JoinHistory(<<conversation_history[1]>>, 1)
        /\ iteration = 2
        /\ pc \in {"loop", "returned"}
        /\ ~LoopCondition
        /\ pc = "returned" =>
             /\ result[1].final_answer = events[2].content
             /\ result[1].iterations = 2

\* C24: every solve call, a first one and one that follows an earlier call
\* that returned or raised, starts with iteration = 0, an empty history, no
\* final answer and the ModelHub's flag, the registry and max_iterations as a
\* new agent has them, so what the call does cannot depend on an earlier
\* call; its first prompt is rendered from the current input and no history;
\* no step of solve changes max_iterations or the registry.
C24_StatelessBetweenCalls ==
    [][ /\ max_iterations' = max_iterations
        /\ tools' = tools
        /\ (pc # "loop" /\ pc' = "loop") =>
              /\ iteration' = 0
              /\ conversation_history' = <<>>
              /\ final_answer' = <<>>
              /\ llmCalls' = 0
              /\ use_fallback' = FALSE
              /\ max_iterations' = MaxIterationsDefault
              /\ tools' = RegisteredTools
        /\ (pc = "loop" /\ llmCalls = 0 /\ llmCalls' = 1) =>
              prompt' = <<get_complex_prompt(user_input, get_tools_description(RegisteredTools),
                                             <<>>)>>
      ]_vars

\* a later call on the instance that has gone through an Action and has a
\* history of its own
C24_Witness ==
    /\ earlierCalls
    /\ pc = "returned"
    /\ llmCalls >= 2
    /\ "action" \in EventKinds
    /\ Len(result[1].conversation_history) >= 2

\* line i of a recalled text is not later than line j
NotLater(a, b) ==
    \/ a.ts.date[3] < b.ts.date[3]
    \/ a.ts.date[3] = b.ts.date[3] /\ a.ts.time <= b.ts.time

\* C25: recall_memory renders the entries of the day's file in chronological
\* order of their timestamps, whichever instances of the user evicted them.
C25_RecallChronological ==
    lastRecall.kind = "memories" =>
        \A i, j \in 1..Len(lastRecall.lines) :
            i < j => NotLater(lastRecall.lines[i], lastRecall.lines[j])

\* C26: a dict or list given to format_observation is rendered so that
\* json.loads of the text equals it; the text of format_observation applied
\* to format_tool_response(name, parameters) loads to the dict
\* {"tool": name, "parameters": parameters}; anything else is rendered as
\* its str().
C26_ObservationRoundTrip ==
    lastFormat.called =>
        IF lastFormat.method = "format_tool_response"
        THEN /\ ~lastFormat.raised
             /\ LoadsText(lastFormat.text) # <<>>
             /\ PyEq(LoadsText(lastFormat.text)[1],
                     PyDict(<<Item(PyStr("tool"), lastFormat.name),
                              Item(PyStr("parameters"), lastFormat.value)>>))
        ELSE IF lastFormat.value.py \in {"dict", "list"}
        THEN /\ ~lastFormat.raised
             /\ LoadsText(lastFormat.text) # <<>>
             /\ PyEq(LoadsText(lastFormat.text)[1], lastFormat.value)
        ELSE /\ ~lastFormat.raised
             /\ lastFormat.text = py_str(lastFormat.value)

\* C27: every iteration whose completion parsed as an Action appends to the
\* history an "Action: using tool X" entry and after it the "Observation: ..."
\* entry, when the tool returned and when it failed, and then increments the
\* iteration.
C27_ActionEntryThenObservation ==
    \A i \in 1..Len(events) :
        events[i].kind = "action" =>
            /\ Len(conversation_history) >= events[i].histBefore + 2
            /\ conversation_history[events[i].histBefore + 1].content =
                   <<AC, "using tool ", events[i].tool>>
            /\ IsPrefix(<<OBS>>, conversation_history[events[i].histBefore + 2].content)
            /\ iteration > events[i].iterBefore

\* C28: at every loop head and at the return of solve the history has as
\* many entries as the iteration count: a completion that parsed as Thought,
\* Action or FinalAnswer appended one entry and added one to the iteration, a
\* parse failure appended nothing and added nothing; the returned iterations
\* is the number of completion calls, or one less after a parse failure.
C28_HistoryLengthIsIteration ==
    /\ Len(conversation_history) = iteration
    /\ \A i \in 1..Len(events) :
          /\ events[i].histBefore = events[i].iterBefore
          /\ events[i].iterBefore = i - 1
          /\ events[i].kind \in {"thought", "action", "final_answer"} =>
                iteration >= i /\ Len(conversation_history) >= i
          /\ events[i].kind = "parse_failure" =>
                /\ i = Len(events)
                /\ iteration = i - 1
                /\ Len(conversation_history) = i - 1
    /\ pc = "returned" =>
          /\ result[1].iterations = Len(result[1].conversation_history)
          /\ result[1].iterations =
                IF LastEventIs("parse_failure") THEN llmCalls - 1 ELSE llmCalls

\* a call that returned after a Thought, a successful and a failed Action
\* and then a parse failure, and reports one iteration less than its
\* completion calls
C28_Witness ==
    /\ pc = "returned"
    /\ LastEventIs("parse_failure")
    /\ "thought" \in EventKinds
    /\ \E i \in 1..Len(events) : events[i].kind = "action" /\ events[i].toolRaised
    /\ \E i \in 1..Len(events) : events[i].kind = "action" /\ ~events[i].toolRaised
    /\ result[1].iterations = llmCalls - 1
    /\ Len(result[1].conversation_history) = 3

\* the iterations of the call in which a handler ran
HandlerRuns == {i \in 1..Len(events) : events[i].handler # "none"}

\* C29: a handler runs only in an iteration whose completion parsed as an
\* Action, once, and only for a name of the registry; no handler runs in or
\* after the iteration that produced a FinalAnswer or a parse failure; a call
\* runs at most max_iterations handlers.
C29_HandlerInvocationSafety ==
    /\ \A i \in HandlerRuns :
          /\ events[i].kind = "action"
          /\ HasTool(tools, events[i].tool)
          /\ events[i].handler = tools[ToolIndex(tools, events[i].tool)].func
    /\ \A i \in 1..Len(events) :
          events[i].kind \in {"final_answer", "parse_failure"} =>
              \A j \in HandlerRuns : j < i
    /\ Cardinality(HandlerRuns) <= max_iterations

\* C30: with the calls on one ModelHub issued one after another (no call
\* overlaps another), use_fallback is False whenever no call is executing,
\* and is False while a call is at its primary model or at its guard; a call
\* that is over and whose primary model failed found the flag False and,
\* with a fallback model configured, made its one fallback attempt.
C30_FlagResetBetweenCalls ==
    (\A c \in Calls : calls[c].alone) =>
        /\ (\A c \in Calls : ~Running(c)) => ~use_fallback
        /\ \A c \in Calls :
               /\ calls[c].pc \in {"primary", "guard"} => ~use_fallback
               /\ (calls[c].primaryOk = <<FALSE>> /\ ~Running(c)) =>
                    /\ calls[c].sawFlag = <<FALSE>>
                    /\ fallback_model => calls[c].fallbackCalls = 1

\* two calls one after another: the fallback of one failed, the primary
\* model of the other failed too and its fallback attempt succeeded
C30_Witness ==
    /\ fallback_model
    /\ ~use_fallback
    /\ calls["c1"].alone /\ calls["c2"].alone
    /\ calls["c1"].pc = "raised" /\ calls["c1"].fallbackOk = <<FALSE>>
    /\ calls["c2"].method = "lightweight_llm_call"
    /\ calls["c2"].pc = "returned"
    /\ calls["c2"].primaryOk = <<FALSE>>
    /\ calls["c2"].fallbackOk = <<TRUE>>

====
